---- MODULE Spec2Model ----
(***************************************************************************)
(* Risk scoring and escalation pipeline of the Digital Psychological       *)
(* Intervention System: the keyword classifier of the student dashboard,   *)
(* the questionnaire scoring of POST /assessment, the escalation rule and  *)
(* the daily risk counter of POST /chat, over the key-value store.         *)
(***************************************************************************)
EXTENDS Integers, Sequences, FiniteSets, TLC

(***************************************************************************)
(* Bounds of the model.                                                    *)
(***************************************************************************)
\* Longest text, in fragments, handed to the classifier.
MaxFrags == 2
\* Number of HTTP requests handled in one behaviour (they may overlap).
MaxReq == 2
\* Last instant of the clock.
MaxNow == 2
\* Clock ticks in one UTC day (the code's 24 * 60 * 60 * 1000 ms, scaled).
TicksPerDay == 2

(***************************************************************************)
(* Text: a string is the sequence of its characters.                       *)
(***************************************************************************)
UpperLetters ==
  <<"A", "B", "C", "D", "E", "F", "G", "H", "I", "J", "K", "L", "M", "N", "O", "P", "Q", "R", "S", "T", "U", "V", "W", "X", "Y", "Z">>

LowerLetters ==
  <<"a", "b", "c", "d", "e", "f", "g", "h", "i", "j", "k", "l", "m", "n", "o", "p", "q", "r", "s", "t", "u", "v", "w", "x", "y", "z">>

\* String.prototype.toLowerCase on one character.
LowerChar(c) ==
  IF \E i \in 1..Len(UpperLetters) : UpperLetters[i] = c
  THEN LowerLetters[CHOOSE i \in 1..Len(UpperLetters) : UpperLetters[i] = c]
  ELSE c

toLowerCase(s) == [i \in 1..Len(s) |-> LowerChar(s[i])]

\* String.prototype.includes: keyword occurs in s at some offset.
includes(s, keyword) ==
  \E i \in 0..(Len(s) - Len(keyword)) :
    \A j \in 1..Len(keyword) : s[i + j] = keyword[j]

\* Array.prototype.some over a keyword list.
some(keywords, s) ==
  \E k \in 1..Len(keywords) : includes(s, keywords[k])

\* String.prototype.trim leaves the empty string (sendMessage's guard).
IsBlank(s) == \A i \in 1..Len(s) : s[i] = " "

crisisKeywords ==
  << <<"s", "u", "i", "c", "i", "d", "e">>,
     <<"k", "i", "l", "l", " ", "m", "y", "s", "e", "l", "f">>,
     <<"e", "n", "d", " ", "i", "t", " ", "a", "l", "l">>,
     <<"d", "i", "e">>,
     <<"h", "a", "r", "m", " ", "m", "y", "s", "e", "l", "f">> >>

highRiskKeywords ==
  << <<"h", "o", "p", "e", "l", "e", "s", "s">>,
     <<"w", "o", "r", "t", "h", "l", "e", "s", "s">>,
     <<"d", "e", "s", "p", "e", "r", "a", "t", "e">>,
     <<"c", "a", "n", "'", "t", " ", "c", "o", "p", "e">>,
     <<"o", "v", "e", "r", "w", "h", "e", "l", "m", "i", "n", "g">> >>

moderateRiskKeywords ==
  << <<"s", "a", "d">>,
     <<"a", "n", "x", "i", "o", "u", "s">>,
     <<"w", "o", "r", "r", "i", "e", "d">>,
     <<"s", "t", "r", "e", "s", "s", "e", "d">>,
     <<"d", "e", "p", "r", "e", "s", "s", "e", "d">> >>

\* A classifier that tests the raw message, never lower-casing it.
assessRiskCaseSensitive(message) ==
  IF some(crisisKeywords, message) THEN "crisis"
  ELSE IF some(highRiskKeywords, message) THEN "high"
  ELSE IF some(moderateRiskKeywords, message) THEN "moderate"
  ELSE "low"

\* A classifier that tests the keyword lists in ascending severity.
assessRiskAscending(message) ==
  LET lowerMessage == toLowerCase(message) IN
  IF some(moderateRiskKeywords, lowerMessage) THEN "moderate"
  ELSE IF some(highRiskKeywords, lowerMessage) THEN "high"
  ELSE IF some(crisisKeywords, lowerMessage) THEN "crisis"
  ELSE "low"

assessRiskBasedOnKeywords(message) ==
  LET lowerMessage == toLowerCase(message) IN
  IF some(crisisKeywords, lowerMessage) THEN "crisis"
  ELSE IF some(highRiskKeywords, lowerMessage) THEN "high"
  ELSE IF some(moderateRiskKeywords, lowerMessage) THEN "moderate"
  ELSE "low"

(***************************************************************************)
(* Inputs of the classifier: every concatenation of at most MaxFrags       *)
(* fragments. The fragments are the fifteen keywords, letter-case variants *)
(* of some, and pieces that form a keyword only across a joint.            *)
(***************************************************************************)
Fragments ==
  << <<"s", "u", "i", "c", "i", "d", "e">>,
     <<"k", "i", "l", "l", " ", "m", "y", "s", "e", "l", "f">>,
     <<"e", "n", "d", " ", "i", "t", " ", "a", "l", "l">>,
     <<"d", "i", "e">>,
     <<"h", "a", "r", "m", " ", "m", "y", "s", "e", "l", "f">>,
     <<"h", "o", "p", "e", "l", "e", "s", "s">>,
     <<"w", "o", "r", "t", "h", "l", "e", "s", "s">>,
     <<"d", "e", "s", "p", "e", "r", "a", "t", "e">>,
     <<"c", "a", "n", "'", "t", " ", "c", "o", "p", "e">>,
     <<"o", "v", "e", "r", "w", "h", "e", "l", "m", "i", "n", "g">>,
     <<"s", "a", "d">>,
     <<"a", "n", "x", "i", "o", "u", "s">>,
     <<"w", "o", "r", "r", "i", "e", "d">>,
     <<"s", "t", "r", "e", "s", "s", "e", "d">>,
     <<"d", "e", "p", "r", "e", "s", "s", "e", "d">>,
     <<"D", "I", "E">>,
     <<"K", "i", "l", "l", " ", "M", "y", "s", "e", "l", "f">>,
     <<"H", "o", "p", "e", "l", "e", "s", "s">>,
     <<"S", "A", "D">>,
     <<"d">>,
     <<"i", "e">>,
     <<" ">>,
     <<"o", "k">> >>

RECURSIVE TextsOfFrags(_)
TextsOfFrags(n) ==
  IF n = 0 THEN { <<>> }
  ELSE LET shorter == TextsOfFrags(n - 1) IN
       shorter \cup { t \o Fragments[f] : t \in shorter, f \in 1..Len(Fragments) }

Texts == TextsOfFrags(MaxFrags)

\* The messages the student types in the behaviours of the whole system.
TextKillMyself ==
  <<"I", " ", "w", "a", "n", "t", " ", "t", "o", " ", "k", "i", "l", "l", " ", "m", "y", "s", "e", "l", "f">>

TextHopeless ==
  <<"I", " ", "f", "e", "e", "l", " ", "h", "o", "p", "e", "l", "e", "s", "s">>

TextSad ==
  <<"s", "o", " ", "s", "a", "d">>

TextHello ==
  <<"h", "e", "l", "l", "o">>

ClientTexts == { TextKillMyself, TextHopeless, TextSad, TextHello }

(***************************************************************************)
(* Identities, tiers, the clock and the key-value store.                   *)
(***************************************************************************)
Students == { "s1", "s2" }

Counsellors == { "c1", "c2" }

Tiers == { "low", "moderate", "high", "crisis" }

\* new Date(t).toISOString().split('T')[0]: the UTC day of instant t.
Date(t) == t \div TicksPerDay

\* JavaScript truthiness of a riskLevel taken from a request body.
Truthy(v) == v \notin { "undefined", "null", "" }

EmptyStore == << >>

\* kv.set(key, value): insert or overwrite.
KvSet(store, key, value) ==
  [k \in (DOMAIN store) \cup { key } |-> IF k = key THEN value ELSE store[k]]

\* All orderings of a finite set, as sequences.
RECURSIVE Orderings(_)
Orderings(S) ==
  IF S = {} THEN { << >> }
  ELSE UNION { { <<x>> \o rest : rest \in Orderings(S \ { x }) } : x \in S }

\* kv.getByPrefix(prefix) over one key prefix: the values, in an order the
\* store does not specify.
getByPrefix(store) ==
  { [i \in 1..Len(keys) |-> store[keys[i]]] : keys \in Orderings(DOMAIN store) }

IsCounsellor(profile) == profile.role = "counsellor"

VARIABLES
  now,                    \* Date.now(), in ticks
  users,                  \* kv "user:<id>"
  chat,                   \* kv "chat:<userId>:<Date.now()>"
  appointment,            \* kv "appointment:<id>"
  studentAppointment,     \* kv "student-appointment:<studentId>:<id>"
  counsellorAppointment,  \* kv "counsellor-appointment:<counsellorId>:<id>"
  analyticsRisk,          \* kv "analytics:risk:<date>"
  assessment,             \* kv "assessment:<userId>:<id>"
  analyticsAssessment,    \* kv "analytics:assessment:<date>"
  forum,                  \* kv "forum:<id>"
  uuid,                   \* number of crypto.randomUUID() values drawn
  req,                    \* per student: the fetch in flight, its handler's
                          \* position and locals, and its answer
  responses,              \* history: how many requests got each answer
  client,                 \* per student: position inside sendMessage, toast
  assessed                \* the classifier's latest call: message and result

storeVars ==
  << users, chat, appointment, studentAppointment, counsellorAppointment,
     analyticsRisk, assessment, analyticsAssessment, forum >>

vars == << now, storeVars, uuid, req, responses, client, assessed >>

NoReq ==
  [ kind |-> "none", pc |-> "idle", token |-> "none", body |-> << >>,
    loc |-> << >>, status |-> 0 ]

\* The handler's locals before it sets them.
NoAppointment ==
  [ id |-> 0, studentId |-> "none", counsellorId |-> "none", date |-> -1,
    time |-> "", status |-> "", riskLevel |-> "", created_at |-> -1 ]

NoLoc ==
  [ user |-> "none", chatMessage |-> << >>, chatKey |-> << >>,
    counsellorProfiles |-> << >>, appointment |-> NoAppointment,
    analyticsKey |-> -1, existingAnalytics |-> << >> ]

IdleClient == [ pc |-> "idle", riskLevel |-> "low", toast |-> "none" ]

StudentProfiles ==
  [ u \in Students |-> [ id |-> u, role |-> "student" ] ]

Init ==
  /\ now = 0
  /\ users = StudentProfiles
  /\ chat = EmptyStore
  /\ forum = EmptyStore
  /\ appointment = EmptyStore
  /\ studentAppointment = EmptyStore
  /\ counsellorAppointment = EmptyStore
  /\ analyticsRisk = EmptyStore
  /\ assessment = EmptyStore
  /\ analyticsAssessment = EmptyStore
  /\ uuid = 0
  /\ req = [ u \in Students |-> NoReq ]
  /\ responses = EmptyStore
  /\ client = [ u \in Students |-> IdleClient ]
  /\ assessed = [ message |-> << >>, riskLevel |-> "none" ]

InFlight(r) == req[r].kind # "none" /\ req[r].pc # "done"

\* Number of requests answered so far.
Answered ==
  LET RECURSIVE Sum(_)
      Sum(S) == IF S = {} THEN 0
                ELSE LET x == CHOOSE y \in S : TRUE IN responses[x] + Sum(S \ { x })
  IN Sum(DOMAIN responses)

\* A behaviour holds at most MaxReq requests.
MayPost == Answered + Cardinality({ r \in Students : InFlight(r) }) < MaxReq

\* An identity provider that takes any token that is present for student s1's.
getUserTrusting(token) ==
  IF token \in Students \cup Counsellors \cup { "a1" } THEN token
  ELSE IF token = "none" THEN "none" ELSE "s1"

\* supabase.auth.getUser(accessToken): the user of a valid token, else none.
getUser(token) ==
  IF token \in Students \cup Counsellors \cup { "a1" } THEN token ELSE "none"

Respond(r, code) == [ req EXCEPT ![r].pc = "done", ![r].status = code ]

\* The answer of a request as the history keeps it.
Answer(kind, subject, status, day) ==
  [ kind |-> kind, subject |-> subject, status |-> status, day |-> day ]

Record(answer) ==
  KvSet(responses, answer,
        (IF answer \in DOMAIN responses THEN responses[answer] ELSE 0) + 1)

(***************************************************************************)
(* The clock and sign-up.                                                  *)
(***************************************************************************)
Tick ==
  /\ now < MaxNow
  /\ now' = now + 1
  /\ UNCHANGED << storeVars, uuid, req, responses, client, assessed >>

\* POST /signup with role counsellor: the profile is stored under user:<id>.
Signup(c) ==
  /\ c \notin DOMAIN users
  /\ users' = KvSet(users, c, [ id |-> c, role |-> "counsellor" ])
  /\ UNCHANGED << now, chat, appointment, studentAppointment,
                  counsellorAppointment, analyticsRisk, assessment,
                  analyticsAssessment, uuid, req, responses, client,
                  assessed, forum >>

(***************************************************************************)
(* The classifier applied to a text (student-dashboard).                   *)
(***************************************************************************)
Assess(t) ==
  /\ assessed.riskLevel = "none"
  /\ assessed' = [ message |-> t, riskLevel |-> assessRiskBasedOnKeywords(t) ]
  /\ UNCHANGED << now, storeVars, uuid, req, responses, client >>

(***************************************************************************)
(* sendMessage of the student dashboard.                                   *)
(***************************************************************************)
NewChat(token, body) ==
  [ kind |-> "chat", pc |-> "auth", token |-> token, body |-> body,
    loc |-> NoLoc, status |-> 0 ]

\* Up to the first fetch: classify the text and post the user message.
SendMessage(u, t, token) ==
  /\ client[u].pc = "idle"
  /\ ~IsBlank(t)
  /\ MayPost
  /\ LET riskLevel == assessRiskBasedOnKeywords(t) IN
     /\ req' = [ req EXCEPT ![u] =
                   NewChat(token, [ message |-> t, isUser |-> TRUE,
                                    riskLevel |-> riskLevel ]) ]
     /\ client' = [ client EXCEPT ![u] =
                      [ pc |-> "awaitUser", riskLevel |-> riskLevel,
                        toast |-> "none" ] ]
  /\ UNCHANGED << now, storeVars, uuid, responses, assessed >>

\* The first fetch has resolved: post the AI response, with no riskLevel.
\* generateAIResponse answers with a canned text of the tier.
PostAIResponse(u) ==
  /\ client[u].pc = "awaitUser"
  /\ req[u].pc = "done"
  /\ MayPost
  /\ req' = [ req EXCEPT ![u] =
                NewChat(req[u].token,
                        [ message |-> << "aiResponse", client[u].riskLevel >>,
                          isUser |-> FALSE, riskLevel |-> "undefined" ]) ]
  /\ client' = [ client EXCEPT ![u].pc = "awaitAI" ]
  /\ UNCHANGED << now, storeVars, uuid, responses, assessed >>

\* The second fetch has resolved: the crisis or high-risk toast.
ShowNotification(u) ==
  /\ client[u].pc = "awaitAI"
  /\ req[u].pc = "done"
  /\ client' = [ client EXCEPT
                   ![u].pc = "idle",
                   ![u].toast = IF client[u].riskLevel = "crisis" THEN "error"
                                ELSE IF client[u].riskLevel = "high" THEN "warning"
                                ELSE "none" ]
  /\ UNCHANGED << now, storeVars, uuid, req, responses, assessed >>

(***************************************************************************)
(* POST /chat. Each action is one awaited call taking effect, followed by  *)
(* the handler's code up to its next await.                                *)
(***************************************************************************)
\* riskLevel === 'crisis' || riskLevel === 'high'
ShouldEscalate(riskLevel) == riskLevel = "crisis" \/ riskLevel = "high"

\* A pool test that lets the empty pool through.
PoolAlwaysUsable(counsellorProfiles) == TRUE

\* counsellorProfiles.length > 0
PoolUsable(counsellorProfiles) == Len(counsellorProfiles) > 0

\* An appointment dated the day of the request and given to the last
\* counsellor of the pool.
AutoAppointmentSameDayLast(id, userId, counsellorProfiles, riskLevel, t) ==
  [ id |-> id,
    studentId |-> userId,
    counsellorId |-> counsellorProfiles[Len(counsellorProfiles)].id,
    date |-> Date(t),
    time |-> "10:00",
    status |-> "auto-scheduled",
    riskLevel |-> riskLevel,
    created_at |-> t ]

\* An appointment whose id is derived from the student instead of being a
\* fresh UUID.
AutoAppointmentPerStudent(id, userId, counsellorProfiles, riskLevel, t) ==
  [ id |-> IF userId = "s1" THEN 1 ELSE 2,
    studentId |-> userId,
    counsellorId |-> counsellorProfiles[1].id,
    date |-> Date(t + TicksPerDay),
    time |-> "10:00",
    status |-> "auto-scheduled",
    riskLevel |-> riskLevel,
    created_at |-> t ]

\* The appointment object of the escalation, built at instant t.
AutoAppointment(id, userId, counsellorProfiles, riskLevel, t) ==
  [ id |-> id,
    studentId |-> userId,
    counsellorId |-> counsellorProfiles[1].id,
    date |-> Date(t + TicksPerDay),
    time |-> "10:00",
    status |-> "auto-scheduled",
    riskLevel |-> riskLevel,
    created_at |-> t ]

\* kv.get(analyticsKey) || { low: 0, moderate: 0, high: 0, crisis: 0 }
ExistingRiskAnalytics(analyticsKey) ==
  IF analyticsKey \in DOMAIN analyticsRisk
  THEN analyticsRisk[analyticsKey]
  ELSE [ t \in Tiers |-> 0 ]

\* An increment that forgets the count it read.
IncrementRiskToOne(existingAnalytics, riskLevel) ==
  KvSet(existingAnalytics, riskLevel, 1)

\* existingAnalytics[riskLevel] = (existingAnalytics[riskLevel] || 0) + 1
IncrementRisk(existingAnalytics, riskLevel) ==
  KvSet(existingAnalytics, riskLevel,
        (IF riskLevel \in DOMAIN existingAnalytics
         THEN existingAnalytics[riskLevel] ELSE 0) + 1)

\* getUser, the 401 answer, the request body and the chatMessage object.
ChatAuth(r) ==
  /\ req[r].kind = "chat" /\ req[r].pc = "auth"
  /\ LET user == getUser(req[r].token) IN
     IF user = "none"
     THEN /\ req' = Respond(r, 401)
          /\ responses' = Record(Answer("chat", req[r].body.riskLevel, 401, -1))
          /\ uuid' = uuid
     ELSE /\ uuid' = uuid + 1
          /\ responses' = responses
          /\ req' = [ req EXCEPT
            ![r].pc = "setChat",
            ![r].loc.user = user,
            ![r].loc.chatMessage =
               [ id |-> uuid + 1, userId |-> user, message |-> req[r].body.message,
                 isUser |-> req[r].body.isUser,
                 riskLevel |-> IF Truthy(req[r].body.riskLevel)
                               THEN req[r].body.riskLevel ELSE "null",
                 timestamp |-> now ],
            ![r].loc.chatKey = << user, now >> ]
  /\ UNCHANGED << now, storeVars, client, assessed >>

\* kv.set(chatKey, chatMessage), then the test of the riskLevel.
ChatSetMessage(r) ==
  /\ req[r].kind = "chat" /\ req[r].pc = "setChat"
  /\ chat' = KvSet(chat, req[r].loc.chatKey, req[r].loc.chatMessage)
  /\ IF ShouldEscalate(req[r].body.riskLevel)
     THEN req' = [ req EXCEPT ![r].pc = "getCounsellors" ]
     ELSE req' = [ req EXCEPT ![r].pc = "getAnalytics",
                              ![r].loc.analyticsKey = Date(now) ]
  /\ UNCHANGED << now, users, appointment, studentAppointment,
                  counsellorAppointment, analyticsRisk, assessment,
                  analyticsAssessment, uuid, responses, client, assessed,
                  forum >>

\* kv.getByPrefix('user:'), the filter on role, and the appointment object
\* with its crypto.randomUUID().
ChatGetCounsellors(r) ==
  /\ req[r].kind = "chat" /\ req[r].pc = "getCounsellors"
  /\ \E counsellors \in getByPrefix(users) :
       LET counsellorProfiles == SelectSeq(counsellors, IsCounsellor) IN
       IF PoolUsable(counsellorProfiles) /\ Len(counsellorProfiles) = 0
       THEN \* counsellorProfiles[0].id of an empty array throws: the catch
            \* answers 500
            /\ uuid' = uuid + 1
            /\ req' = [ Respond(r, 500) EXCEPT
                          ![r].loc.counsellorProfiles = counsellorProfiles ]
            /\ responses' = Record(Answer("chat", req[r].body.riskLevel, 500, -1))
       ELSE IF PoolUsable(counsellorProfiles)
       THEN /\ uuid' = uuid + 1
            /\ responses' = responses
            /\ req' = [ req EXCEPT
              ![r].pc = "setAppointment",
              ![r].loc.counsellorProfiles = counsellorProfiles,
              ![r].loc.appointment =
                 AutoAppointment(uuid + 1, req[r].loc.user, counsellorProfiles,
                                 req[r].body.riskLevel, now) ]
       ELSE /\ uuid' = uuid
            /\ responses' = responses
            /\ req' = [ req EXCEPT
              ![r].pc = "getAnalytics",
              ![r].loc.counsellorProfiles = counsellorProfiles,
              ![r].loc.analyticsKey = Date(now) ]
  /\ UNCHANGED << now, storeVars, client, assessed >>

\* kv.set(`appointment:${appointment.id}`, appointment)
ChatSetAppointment(r) ==
  /\ req[r].kind = "chat" /\ req[r].pc = "setAppointment"
  /\ appointment' =
       KvSet(appointment, req[r].loc.appointment.id, req[r].loc.appointment)
  /\ req' = [ req EXCEPT ![r].pc = "setStudentAppointment" ]
  /\ UNCHANGED << now, users, chat, studentAppointment, counsellorAppointment,
                  analyticsRisk, assessment, analyticsAssessment, uuid,
                  responses, client, assessed, forum >>

\* kv.set(`student-appointment:${user.id}:${appointment.id}`, appointment)
ChatSetStudentAppointment(r) ==
  /\ req[r].kind = "chat" /\ req[r].pc = "setStudentAppointment"
  /\ studentAppointment' =
       KvSet(studentAppointment,
             << req[r].loc.user, req[r].loc.appointment.id >>,
             req[r].loc.appointment)
  /\ req' = [ req EXCEPT ![r].pc = "setCounsellorAppointment" ]
  /\ UNCHANGED << now, users, chat, appointment, counsellorAppointment,
                  analyticsRisk, assessment, analyticsAssessment, uuid,
                  responses, client, assessed, forum >>

\* kv.set(`counsellor-appointment:${counsellorProfiles[0].id}:...`), then the
\* analytics key of the day.
ChatSetCounsellorAppointment(r) ==
  /\ req[r].kind = "chat" /\ req[r].pc = "setCounsellorAppointment"
  /\ counsellorAppointment' =
       KvSet(counsellorAppointment,
             << req[r].loc.counsellorProfiles[1].id, req[r].loc.appointment.id >>,
             req[r].loc.appointment)
  /\ req' = [ req EXCEPT ![r].pc = "getAnalytics",
                         ![r].loc.analyticsKey = Date(now) ]
  /\ UNCHANGED << now, users, chat, appointment, studentAppointment,
                  analyticsRisk, assessment, analyticsAssessment, uuid,
                  responses, client, assessed, forum >>

\* kv.get(analyticsKey) || zeros, then the increment of the local object;
\* without a riskLevel the handler answers at once.
ChatGetAnalytics(r) ==
  /\ req[r].kind = "chat" /\ req[r].pc = "getAnalytics"
  /\ LET existingAnalytics == ExistingRiskAnalytics(req[r].loc.analyticsKey) IN
     IF Truthy(req[r].body.riskLevel)
     THEN /\ req' = [ req EXCEPT
            ![r].pc = "setAnalytics",
            ![r].loc.existingAnalytics =
               IncrementRisk(existingAnalytics, req[r].body.riskLevel) ]
          /\ responses' = responses
     ELSE /\ req' = [ Respond(r, 200) EXCEPT
            ![r].loc.existingAnalytics = existingAnalytics ]
          /\ responses' = Record(Answer("chat", req[r].body.riskLevel, 200,
                                        req[r].loc.analyticsKey))
  /\ UNCHANGED << now, storeVars, uuid, client, assessed >>

\* kv.set(analyticsKey, existingAnalytics) and the success answer.
ChatSetAnalytics(r) ==
  /\ req[r].kind = "chat" /\ req[r].pc = "setAnalytics"
  /\ analyticsRisk' =
       KvSet(analyticsRisk, req[r].loc.analyticsKey, req[r].loc.existingAnalytics)
  /\ req' = Respond(r, 200)
  /\ responses' = Record(Answer("chat", req[r].body.riskLevel, 200,
                                req[r].loc.analyticsKey))
  /\ UNCHANGED << now, users, chat, appointment, studentAppointment,
                  counsellorAppointment, assessment, analyticsAssessment,
                  uuid, client, assessed, forum >>

ChatHandler(r) ==
  \/ ChatAuth(r)
  \/ ChatSetMessage(r)
  \/ ChatGetCounsellors(r)
  \/ ChatSetAppointment(r)
  \/ ChatSetStudentAppointment(r)
  \/ ChatSetCounsellorAppointment(r)
  \/ ChatGetAnalytics(r)
  \/ ChatSetAnalytics(r)

(***************************************************************************)
(* POST /assessment.                                                       *)
(***************************************************************************)
\* scores.reduce((sum, score) => sum + score, 0)
RECURSIVE reduce(_)
reduce(scores) ==
  IF scores = << >> THEN 0 ELSE Head(scores) + reduce(Tail(scores))

\* PHQ-9 thresholds with the upper bounds exclusive.
scorePHQ9Exclusive(total) ==
  IF total < 4 THEN [ result |-> "Minimal Depression", riskLevel |-> "low" ]
  ELSE IF total < 9 THEN [ result |-> "Mild Depression", riskLevel |-> "low" ]
  ELSE IF total < 14
  THEN [ result |-> "Moderate Depression", riskLevel |-> "moderate" ]
  ELSE IF total < 19
  THEN [ result |-> "Moderately Severe Depression", riskLevel |-> "high" ]
  ELSE [ result |-> "Severe Depression", riskLevel |-> "crisis" ]

\* The PHQ-9 branch.
scorePHQ9(total) ==
  IF total <= 4 THEN [ result |-> "Minimal Depression", riskLevel |-> "low" ]
  ELSE IF total <= 9 THEN [ result |-> "Mild Depression", riskLevel |-> "low" ]
  ELSE IF total <= 14
  THEN [ result |-> "Moderate Depression", riskLevel |-> "moderate" ]
  ELSE IF total <= 19
  THEN [ result |-> "Moderately Severe Depression", riskLevel |-> "high" ]
  ELSE [ result |-> "Severe Depression", riskLevel |-> "crisis" ]

\* GAD-7 thresholds with a crisis tier from 20, as PHQ-9 has.
scoreGAD7WithCrisis(total) ==
  IF total <= 4 THEN [ result |-> "Minimal Anxiety", riskLevel |-> "low" ]
  ELSE IF total <= 9 THEN [ result |-> "Mild Anxiety", riskLevel |-> "low" ]
  ELSE IF total <= 14
  THEN [ result |-> "Moderate Anxiety", riskLevel |-> "moderate" ]
  ELSE IF total <= 19 THEN [ result |-> "Severe Anxiety", riskLevel |-> "high" ]
  ELSE [ result |-> "Severe Anxiety", riskLevel |-> "crisis" ]

\* The GAD-7 branch.
scoreGAD7(total) ==
  IF total <= 4 THEN [ result |-> "Minimal Anxiety", riskLevel |-> "low" ]
  ELSE IF total <= 9 THEN [ result |-> "Mild Anxiety", riskLevel |-> "low" ]
  ELSE IF total <= 14
  THEN [ result |-> "Moderate Anxiety", riskLevel |-> "moderate" ]
  ELSE [ result |-> "Severe Anxiety", riskLevel |-> "high" ]

\* result and riskLevel as the handler leaves them: '' and 'low' unless the
\* type is one of the two instruments.
scoreAssessment(type, scores) ==
  IF type = "GAD-7" THEN scoreGAD7(reduce(scores))
  ELSE IF type = "PHQ-9" THEN scorePHQ9(reduce(scores))
  ELSE [ result |-> "", riskLevel |-> "low" ]

NoAssessmentLoc ==
  [ user |-> "none", assessment |-> << >>, analyticsKey |-> -1,
    existingAnalytics |-> << >> ]

NewAssessment(token, body) ==
  [ kind |-> "assessment", pc |-> "auth", token |-> token, body |-> body,
    loc |-> NoAssessmentLoc, status |-> 0 ]

\* submitAssessment of the student dashboard: refuses an empty score list
\* and posts type and scores. The endpoint itself takes any body.
submitAssessment(u, type, scores, token) ==
  /\ client[u].pc = "idle"
  /\ Len(scores) # 0
  /\ MayPost
  /\ req' = [ req EXCEPT ![u] =
                NewAssessment(token, [ type |-> type, scores |-> scores,
                                       responses |-> scores ]) ]
  /\ client' = [ client EXCEPT ![u].pc = "awaitAssessment" ]
  /\ UNCHANGED << now, storeVars, uuid, responses, assessed >>

\* The fetch has resolved.
AssessmentResolved(u) ==
  /\ client[u].pc = "awaitAssessment"
  /\ req[u].pc = "done"
  /\ client' = [ client EXCEPT ![u].pc = "idle" ]
  /\ UNCHANGED << now, storeVars, uuid, req, responses, assessed >>

\* getUser, the 401 answer, the scoring and the assessment object.
AssessmentAuth(r) ==
  /\ req[r].kind = "assessment" /\ req[r].pc = "auth"
  /\ LET user == getUser(req[r].token)
         scored == scoreAssessment(req[r].body.type, req[r].body.scores)
     IN
     IF user = "none"
     THEN /\ req' = Respond(r, 401)
          /\ responses' = Record(Answer("assessment", req[r].body.type, 401, -1))
          /\ uuid' = uuid
     ELSE /\ uuid' = uuid + 1
          /\ responses' = responses
          /\ req' = [ req EXCEPT
               ![r].pc = "setAssessment",
               ![r].loc.user = user,
               ![r].loc.assessment =
                  [ id |-> uuid + 1, userId |-> user,
                    type |-> req[r].body.type,
                    scores |-> req[r].body.scores,
                    responses |-> req[r].body.responses,
                    result |-> scored.result,
                    riskLevel |-> scored.riskLevel,
                    timestamp |-> now ] ]
  /\ UNCHANGED << now, storeVars, client, assessed >>

\* kv.set(`assessment:${user.id}:${assessment.id}`, assessment), then the
\* analytics key of the day.
AssessmentSet(r) ==
  /\ req[r].kind = "assessment" /\ req[r].pc = "setAssessment"
  /\ assessment' =
       KvSet(assessment, << req[r].loc.user, req[r].loc.assessment.id >>,
             req[r].loc.assessment)
  /\ req' = [ req EXCEPT ![r].pc = "getAnalytics",
                         ![r].loc.analyticsKey = Date(now) ]
  /\ UNCHANGED << now, users, chat, appointment, studentAppointment,
                  counsellorAppointment, analyticsRisk, analyticsAssessment,
                  uuid, responses, client, assessed, forum >>

\* kv.get(analyticsKey) || {}, then
\* existingAnalytics[type] = (existingAnalytics[type] || 0) + 1
AssessmentGetAnalytics(r) ==
  /\ req[r].kind = "assessment" /\ req[r].pc = "getAnalytics"
  /\ LET existingAnalytics ==
           IF req[r].loc.analyticsKey \in DOMAIN analyticsAssessment
           THEN analyticsAssessment[req[r].loc.analyticsKey]
           ELSE EmptyStore
         type == req[r].body.type
     IN req' = [ req EXCEPT
          ![r].pc = "setAnalytics",
          ![r].loc.existingAnalytics =
             KvSet(existingAnalytics, type,
                   (IF type \in DOMAIN existingAnalytics
                    THEN existingAnalytics[type] ELSE 0) + 1) ]
  /\ UNCHANGED << now, storeVars, uuid, responses, client, assessed >>

\* kv.set(analyticsKey, existingAnalytics) and the success answer.
AssessmentSetAnalytics(r) ==
  /\ req[r].kind = "assessment" /\ req[r].pc = "setAnalytics"
  /\ analyticsAssessment' =
       KvSet(analyticsAssessment, req[r].loc.analyticsKey,
             req[r].loc.existingAnalytics)
  /\ req' = Respond(r, 200)
  /\ responses' = Record(Answer("assessment", req[r].body.type, 200,
                                req[r].loc.analyticsKey))
  /\ UNCHANGED << now, users, chat, appointment, studentAppointment,
                  counsellorAppointment, analyticsRisk, assessment, uuid,
                  client, assessed, forum >>

AssessmentHandler(r) ==
  \/ AssessmentAuth(r)
  \/ AssessmentSet(r)
  \/ AssessmentGetAnalytics(r)
  \/ AssessmentSetAnalytics(r)

(***************************************************************************)
(* Inputs of the scorer: lists of n items, the first k of value a and the  *)
(* others of value b. With the right length these reach every total, 0..27 *)
(* for PHQ-9 and 0..21 for GAD-7; the others have a wrong length or an     *)
(* item outside 0..3.                                                      *)
(***************************************************************************)
Items(n, k, a, b) == [ i \in 1..n |-> IF i <= k THEN a ELSE b ]

ItemLists(n, values) ==
  { Items(n, k, a, b) : k \in 0..n, a \in values, b \in values }

ScoreInputs ==
  ({ "PHQ-9" } \X ItemLists(9, 0..3))
    \cup ({ "GAD-7" } \X ItemLists(7, 0..3))
    \cup ({ "GAD-7" } \X ItemLists(9, { 0, 3 }))
    \cup ({ "PHQ-9" } \X ItemLists(7, { 0, 3 }))
    \cup ({ "PHQ-9" } \X ItemLists(9, { 0, 4 }))
    \cup ({ "GAD-7" } \X ItemLists(7, { 0, 4 }))

(***************************************************************************)
(* Specifications.                                                         *)
(***************************************************************************)
ClientStep ==
  \/ \E u \in Students, t \in ClientTexts :
       \E token \in { u, "invalid" } : SendMessage(u, t, token)
  \/ \E u \in Students : PostAIResponse(u)
  \/ \E u \in Students : ShowNotification(u)

Next ==
  \/ Tick
  \/ \E c \in Counsellors : Signup(c)
  \/ ClientStep
  \/ \E r \in Students : ChatHandler(r)

Spec == Init /\ [][Next]_vars

\* The same system with the requests handled one after the other: a fetch
\* is posted only when no handler is running.
NoneInFlight == \A r \in Students : ~InFlight(r)

NextSeq ==
  \/ Tick
  \/ \E c \in Counsellors : Signup(c)
  \/ NoneInFlight /\ ClientStep
  \/ \E r \in Students : ChatHandler(r)

SpecSeq == Init /\ [][NextSeq]_vars

\* The classifier alone, over every text of the bounded input set.
NextClassify == \E t \in Texts : Assess(t)

SpecClassify == Init /\ [][NextClassify]_vars

\* The assessment endpoint alone: one submission of every input.
NextScore ==
  \/ Tick
  \/ \E in \in ScoreInputs, token \in { "s1", "invalid" } :
       /\ assessment = EmptyStore
       /\ submitAssessment("s1", in[1], in[2], token)
  \/ AssessmentResolved("s1")
  \/ AssessmentHandler("s1")

SpecScore == Init /\ [][NextScore]_vars

(***************************************************************************)
(* Properties.                                                             *)
(***************************************************************************)
Range(s) == { s[i] : i \in DOMAIN s }

\* keyword occurs in s: s is some prefix, then the keyword, then some suffix.
Occurs(keyword, s) ==
  \E i \in 1..Len(s) :
    /\ i + Len(keyword) - 1 <= Len(s)
    /\ SubSeq(s, i, i + Len(keyword) - 1) = keyword

OccursAny(keywords, s) == \E k \in Range(keywords) : Occurs(k, s)

UpperChar(c) ==
  IF \E i \in 1..Len(LowerLetters) : LowerLetters[i] = c
  THEN UpperLetters[CHOOSE i \in 1..Len(LowerLetters) : LowerLetters[i] = c]
  ELSE c

toUpperCase(s) == [i \in 1..Len(s) |-> UpperChar(s[i])]

RECURSIVE SumOver(_, _)
SumOver(f, S) ==
  IF S = {} THEN 0
  ELSE LET x == CHOOSE y \in S : TRUE IN f[x] + SumOver(f, S \ { x })

\* The sum of a list of items.
Total(scores) == SumOver(scores, DOMAIN scores)

\* C1: a text that contains a crisis keyword as a substring is classified
\* crisis, whatever high-risk or moderate-risk keywords it also contains and
\* wherever they stand.
C1_CrisisKeywordWins ==
  (assessed.riskLevel # "none" /\ OccursAny(crisisKeywords, assessed.message))
    => assessed.riskLevel = "crisis"

\* A text classified crisis in which a keyword of a lower tier stands before
\* the crisis keyword.
C1_Witness ==
  /\ assessed.riskLevel = "crisis"
  /\ \E k \in Range(crisisKeywords),
        m \in Range(highRiskKeywords) \cup Range(moderateRiskKeywords) :
       assessed.message = m \o k

\* C9: a text with no crisis keyword is classified high if its lower-cased
\* form contains a high-risk keyword, else moderate if it contains a
\* moderate-risk keyword, else low; the upper-cased and the lower-cased text
\* get the class of the text itself; the empty text is classified low.
C9_CascadeCaseInsensitive ==
  assessed.riskLevel # "none" =>
    LET lowered == toLowerCase(assessed.message) IN
    /\ ~OccursAny(crisisKeywords, lowered) =>
         assessed.riskLevel =
           IF OccursAny(highRiskKeywords, lowered) THEN "high"
           ELSE IF OccursAny(moderateRiskKeywords, lowered) THEN "moderate"
           ELSE "low"
    /\ assessRiskBasedOnKeywords(toUpperCase(assessed.message))
         = assessed.riskLevel
    /\ assessRiskBasedOnKeywords(lowered) = assessed.riskLevel
    /\ assessed.message = << >> => assessed.riskLevel = "low"

\* A text classified high through a keyword written with a capital, beside
\* a moderate-risk keyword.
C9_Witness ==
  /\ assessed.riskLevel = "high"
  /\ assessed.message # toLowerCase(assessed.message)
  /\ ~OccursAny(highRiskKeywords, assessed.message)
  /\ OccursAny(moderateRiskKeywords, assessed.message)

\* The assessment objects built or stored so far.
Assessments ==
  { assessment[k] : k \in DOMAIN assessment }
    \cup { req[u].loc.assessment :
             u \in { v \in Students : /\ req[v].kind = "assessment"
                                      /\ req[v].loc.user # "none" } }

\* C2: a PHQ-9 submission is labelled by the sum of its items: 0..4 Minimal
\* Depression/low, 5..9 Mild Depression/low, 10..14 Moderate Depression/
\* moderate, 15..19 Moderately Severe Depression/high, 20..27 Severe
\* Depression/crisis.
C2_PHQ9Table ==
  \A a \in Assessments :
    a.type = "PHQ-9" =>
      LET total == Total(a.scores) IN
      /\ total \in 0..4 => a.result = "Minimal Depression" /\ a.riskLevel = "low"
      /\ total \in 5..9 => a.result = "Mild Depression" /\ a.riskLevel = "low"
      /\ total \in 10..14 =>
           a.result = "Moderate Depression" /\ a.riskLevel = "moderate"
      /\ total \in 15..19 =>
           a.result = "Moderately Severe Depression" /\ a.riskLevel = "high"
      /\ total \in 20..27 =>
           a.result = "Severe Depression" /\ a.riskLevel = "crisis"

\* The nine items all 3 are stored as Severe Depression, crisis, and a
\* submission of total 4 as Minimal Depression.
C2_Witness ==
  /\ \E k \in DOMAIN assessment :
       /\ assessment[k].type = "PHQ-9"
       /\ assessment[k].scores = Items(9, 9, 3, 3)
       /\ assessment[k].result = "Severe Depression"
       /\ assessment[k].riskLevel = "crisis"
  /\ req["s1"].status = 200

\* C10: a GAD-7 submission is labelled by the sum of its items: 0..4 Minimal
\* Anxiety/low, 5..9 Mild Anxiety/low, 10..14 Moderate Anxiety/moderate,
\* 15..21 Severe Anxiety/high; no GAD-7 submission gets the tier crisis.
C10_GAD7Table ==
  \A a \in Assessments :
    a.type = "GAD-7" =>
      LET total == Total(a.scores) IN
      /\ total \in 0..4 => a.result = "Minimal Anxiety" /\ a.riskLevel = "low"
      /\ total \in 5..9 => a.result = "Mild Anxiety" /\ a.riskLevel = "low"
      /\ total \in 10..14 =>
           a.result = "Moderate Anxiety" /\ a.riskLevel = "moderate"
      /\ total \in 15..21 =>
           a.result = "Severe Anxiety" /\ a.riskLevel = "high"
      /\ a.riskLevel # "crisis"

\* The seven items all 3, total 21, are stored as Severe Anxiety, high.
C10_Witness ==
  /\ \E k \in DOMAIN assessment :
       /\ assessment[k].type = "GAD-7"
       /\ assessment[k].scores = Items(7, 7, 3, 3)
       /\ assessment[k].result = "Severe Anxiety"
       /\ assessment[k].riskLevel = "high"
  /\ req["s1"].status = 200

\* The preconditions of the scorer.
ValidScores(type, scores) ==
  /\ type = "PHQ-9" => Len(scores) = 9
  /\ type = "GAD-7" => Len(scores) = 7
  /\ \A i \in DOMAIN scores : scores[i] \in 0..3

\* C5: a submission whose item list has not the length of its instrument, or
\* has an item outside 0..3, is refused: no assessment record is stored for
\* it and no counter is incremented.
C5_InvalidRejected ==
  /\ \A k \in DOMAIN assessment :
       ValidScores(assessment[k].type, assessment[k].scores)
  /\ \A u \in Students :
       (req[u].kind = "assessment" /\ req[u].status = 200) =>
         ValidScores(req[u].body.type, req[u].body.scores)

\* The request of u is answered by this step.
Answers(u) == req[u].pc # "done" /\ req'[u].pc = "done"

IsCounsellorId(c) == c \in DOMAIN users /\ users[c].role = "counsellor"

\* What holds of the chat request of u when its answer leaves.
EscalationOutcome(u) ==
  LET body == req[u].body
      loc == req[u].loc
      created ==
        /\ loc.appointment.id \in DOMAIN appointment
        /\ << loc.user, loc.appointment.id >> \in DOMAIN studentAppointment
  IN
  /\ created <=>
       (body.riskLevel \in { "high", "crisis" } /\ Len(loc.counsellorProfiles) > 0)
  /\ created => IsCounsellorId(loc.appointment.counsellorId)
  /\ (body.riskLevel \in { "high", "crisis" } /\ Len(loc.counsellorProfiles) = 0) =>
       /\ req[u].status = 200
       /\ loc.chatKey \in DOMAIN chat
       /\ chat[loc.chatKey] = loc.chatMessage
       /\ loc.analyticsKey \in DOMAIN analyticsRisk
       /\ analyticsRisk[loc.analyticsKey][body.riskLevel] >= 1

\* C3: an authenticated chat request has created an appointment when it is
\* answered iff its tier is high or crisis and the handler found at least
\* one counsellor profile; with tier high or crisis and no counsellor the
\* request is still answered 200, its message is stored and the counter of
\* the day counts it; every stored appointment has tier high or crisis.
C3_EscalationIffTierAndPool ==
  [][ /\ \A u \in Students :
           (Answers(u) /\ req'[u].kind = "chat" /\ req'[u].status # 401)
             => EscalationOutcome(u)'
      /\ \A id \in DOMAIN appointment' :
           appointment'[id].riskLevel \in { "high", "crisis" } ]_vars

\* A high or crisis message answered 200 while no counsellor has signed up.
C3_Witness ==
  \E u \in Students :
    /\ req[u].kind = "chat" /\ req[u].pc = "done" /\ req[u].status = 200
    /\ req[u].body.riskLevel \in { "high", "crisis" }
    /\ req[u].loc.counsellorProfiles = << >>
    /\ appointment = EmptyStore
    /\ req[u].loc.chatKey \in DOMAIN chat
    /\ req[u].loc.analyticsKey \in DOMAIN analyticsRisk

\* C4: an appointment of the escalation has the tier of the message, the
\* submitting user as student, the first counsellor of the list the handler
\* read as counsellor, status auto-scheduled, time 10:00 and the day after
\* its creation as date; the three stored copies are that appointment.
C4_AutoAppointmentFields ==
  /\ \A id \in DOMAIN appointment :
       /\ appointment[id].status = "auto-scheduled"
       /\ appointment[id].time = "10:00"
       /\ appointment[id].date = Date(appointment[id].created_at) + 1
       /\ appointment[id].id = id
  /\ \A u \in Students :
       (req[u].kind = "chat" /\ req[u].loc.appointment.id # 0) =>
         LET loc == req[u].loc
             a == req[u].loc.appointment
         IN
         /\ a.riskLevel = req[u].body.riskLevel
         /\ a.studentId = u /\ u = getUser(req[u].token)
         /\ a.counsellorId = loc.counsellorProfiles[1].id
         /\ a.status = "auto-scheduled"
         /\ a.time = "10:00"
         /\ a.date = Date(a.created_at) + 1
         /\ loc.chatKey[2] <= a.created_at /\ a.created_at <= now
         /\ req[u].pc \notin { "setAppointment" } =>
              (a.id \in DOMAIN appointment /\ appointment[a.id] = a)
         /\ req[u].pc \notin { "setAppointment", "setStudentAppointment" } =>
              /\ << u, a.id >> \in DOMAIN studentAppointment
              /\ studentAppointment[<< u, a.id >>] = a
         /\ req[u].pc \in { "getAnalytics", "setAnalytics", "done" } =>
              /\ << a.counsellorId, a.id >> \in DOMAIN counsellorAppointment
              /\ counsellorAppointment[<< a.counsellorId, a.id >>] = a

\* An appointment created on the last tick of a day, with two counsellors
\* in the list the handler read, stored in its three copies.
C4_Witness ==
  \E u \in Students :
    /\ req[u].kind = "chat" /\ req[u].pc = "done" /\ req[u].status = 200
    /\ Len(req[u].loc.counsellorProfiles) = 2
    /\ req[u].loc.appointment.id \in DOMAIN appointment
    /\ req[u].loc.appointment.created_at % TicksPerDay = TicksPerDay - 1
    /\ << req[u].loc.appointment.counsellorId, req[u].loc.appointment.id >>
         \in DOMAIN counsellorAppointment

\* The chat requests of day d answered 200 that carried a tier.
TieredAnswers(d) ==
  { a \in DOMAIN responses :
      a.kind = "chat" /\ a.status = 200 /\ a.day = d /\ a.subject \in Tiers }

CountOfAnswers(S) == SumOver(responses, S)

\* C6: when requests are handled one after another and the N tiered
\* messages of a day were all high, the counter of that day is high = N and
\* 0 for the other tiers (absent when N = 0).
C6_SequentialHighCount ==
  \A d \in 0..Date(MaxNow) :
    (\A a \in TieredAnswers(d) : a.subject = "high") =>
      IF TieredAnswers(d) = {}
      THEN d \notin DOMAIN analyticsRisk
      ELSE /\ d \in DOMAIN analyticsRisk
           /\ analyticsRisk[d] =
                [ t \in Tiers |->
                    IF t = "high" THEN CountOfAnswers(TieredAnswers(d)) ELSE 0 ]

\* Two high messages of one day, answered one after the other.
C6_Witness ==
  \E d \in 0..Date(MaxNow) :
    /\ d \in DOMAIN analyticsRisk
    /\ analyticsRisk[d] = [ t \in Tiers |-> IF t = "high" THEN 2 ELSE 0 ]
    /\ CountOfAnswers(TieredAnswers(d)) = 2

\* The sum of the counters of all days and tiers.
CountedMessages ==
  LET perDay == [ d \in DOMAIN analyticsRisk |->
                    SumOver(analyticsRisk[d], DOMAIN analyticsRisk[d]) ]
  IN SumOver(perDay, DOMAIN perDay)

AllTieredAnswers ==
  { a \in DOMAIN responses :
      a.kind = "chat" /\ a.status = 200 /\ a.subject \in Tiers }

\* C7: the increments of concurrent requests are atomic: once every request
\* is answered, the counters count every tiered message answered 200.
C7_NoLostIncrement ==
  NoneInFlight => CountedMessages = CountOfAnswers(AllTieredAnswers)

\* C8: the text "I want to kill myself" is posted with tier crisis; when its
\* request is answered and the handler found a counsellor, an auto-scheduled
\* appointment of tier crisis is stored for the student, and the answer
\* raises the crisis count of the day by exactly 1.
C8_KillMyselfEndToEnd ==
  [][ \A u \in Students :
        (req[u].kind = "chat" /\ req[u].body.message = TextKillMyself) =>
          /\ req[u].body.riskLevel = "crisis"
          /\ (Answers(u) /\ req'[u].status = 200) =>
               LET loc == req[u].loc IN
               /\ Len(loc.counsellorProfiles) > 0 =>
                    /\ loc.appointment.id \in DOMAIN appointment
                    /\ appointment[loc.appointment.id].status = "auto-scheduled"
                    /\ appointment[loc.appointment.id].riskLevel = "crisis"
                    /\ appointment[loc.appointment.id].studentId = u
               /\ analyticsRisk'[loc.analyticsKey]["crisis"] =
                    ExistingRiskAnalytics(loc.analyticsKey)["crisis"] + 1 ]_vars

(***************************************************************************)
(* POST /assessment with students submitting at the same time and          *)
(* counsellors signing up.                                                 *)
(***************************************************************************)
\* Nine PHQ-9 answers of 3 (crisis), seven GAD-7 answers of 3 (high), nine
\* PHQ-9 answers of 0 (low).
AssessInputs ==
  { << "PHQ-9", Items(9, 9, 3, 3) >>,
    << "GAD-7", Items(7, 7, 3, 3) >>,
    << "PHQ-9", Items(9, 9, 0, 0) >> }

NextAssess ==
  \/ Tick
  \/ \E c \in Counsellors : Signup(c)
  \/ \E u \in Students, in \in AssessInputs :
       \E token \in { u, "invalid" } : submitAssessment(u, in[1], in[2], token)
  \/ \E u \in Students : AssessmentResolved(u)
  \/ \E r \in Students : AssessmentHandler(r)

SpecAssess == Init /\ [][NextAssess]_vars

(***************************************************************************)
(* The admin dashboard: processRiskData and getOverallStats.               *)
(***************************************************************************)
\* .slice(-7)
WindowDays == 7

slice(s) == SubSeq(s, IF Len(s) > WindowDays THEN Len(s) - WindowDays + 1 ELSE 1, Len(s))

\* item.low || 0
OrZero(item, key) == IF key \in DOMAIN item THEN item[key] ELSE 0

\* The entries are mapped first and cut to the last seven after. The stored
\* counters carry no date, so new Date(item.date) is an Invalid Date.
processRiskData(analytics) ==
  IF "riskAnalytics" \notin DOMAIN analytics THEN << >>
  ELSE slice([ i \in 1..Len(analytics.riskAnalytics) |->
         LET item == analytics.riskAnalytics[i] IN
         [ date |-> "Invalid Date",
           Low |-> OrZero(item, "low"),
           Moderate |-> OrZero(item, "moderate"),
           High |-> OrZero(item, "high"),
           Crisis |-> OrZero(item, "crisis"),
           Total |-> OrZero(item, "low") + OrZero(item, "moderate")
                       + OrZero(item, "high") + OrZero(item, "crisis") ] ])

\* riskData.reduce((sum, day) => sum + day[field], 0)
RECURSIVE reduceField(_, _)
reduceField(riskData, field) ==
  IF riskData = << >> THEN 0
  ELSE Head(riskData)[field] + reduceField(Tail(riskData), field)

DigitChars == << "0", "1", "2", "3", "4", "5", "6", "7", "8", "9" >>

\* The decimal digits of a natural number.
RECURSIVE DigitsOf(_)
DigitsOf(n) ==
  IF n < 10 THEN << DigitChars[n + 1] >>
  ELSE DigitsOf(n \div 10) \o << DigitChars[(n % 10) + 1] >>

\* A rate that is the plain quotient, cut to one decimal.
RateAsFraction(crisisCases, totalInteractions) ==
  LET n == (10 * crisisCases) \div totalInteractions IN
  DigitsOf(n \div 10) \o << "." >> \o DigitsOf(n % 10)

\* ((crisisCases / totalInteractions) * 100).toFixed(1): the percentage
\* rounded to the nearest tenth, the larger one at a tie.
RateToFixed(crisisCases, totalInteractions) ==
  LET n == (2000 * crisisCases + totalInteractions) \div (2 * totalInteractions) IN
  DigitsOf(n \div 10) \o << "." >> \o DigitsOf(n % 10)

getOverallStats(analytics) ==
  LET riskData == processRiskData(analytics)
      totalInteractions == reduceField(riskData, "Total")
      crisisCases == reduceField(riskData, "Crisis")
      highRiskCases == reduceField(riskData, "High")
  IN [ totalInteractions |-> totalInteractions,
       crisisCases |-> crisisCases,
       highRiskCases |-> highRiskCases,
       crisisRate |-> IF totalInteractions > 0
                      THEN RateToFixed(crisisCases, totalInteractions)
                      ELSE << "0" >> ]

Admins == { "a1" }

NoStats == [ totalInteractions |-> -1 ]

\* The dashboard of an admin with the analytics it has loaded.
LoadedClient(analytics) ==
  [ pc |-> "loaded", analytics |-> analytics, stats |-> NoStats ]

\* const stats = getOverallStats() of a render.
Render(a) ==
  /\ client[a].pc = "loaded"
  /\ client' = [ client EXCEPT ![a].pc = "rendered",
                               ![a].stats = getOverallStats(client[a].analytics) ]
  /\ UNCHANGED << now, storeVars, uuid, req, responses, assessed >>

\* Day counters as POST /chat leaves them.
CounterChoices ==
  { [ low |-> 0, moderate |-> 0, high |-> 0, crisis |-> 0 ],
    [ low |-> 3, moderate |-> 0, high |-> 0, crisis |-> 1 ],
    [ low |-> 0, moderate |-> 1, high |-> 1, crisis |-> 1 ] }

\* The series an answer of GET /analytics can carry: up to one entry more
\* than the window.
MaxSeries == WindowDays + 1

RECURSIVE SeriesOfLen(_)
SeriesOfLen(n) ==
  IF n = 0 THEN { << >> }
  ELSE { Append(s, c) : s \in SeriesOfLen(n - 1), c \in CounterChoices }

SeriesInputs == UNION { SeriesOfLen(n) : n \in 0..MaxSeries }

InitStats ==
  /\ now = 0
  /\ users = StudentProfiles
  /\ chat = EmptyStore
  /\ forum = EmptyStore
  /\ appointment = EmptyStore
  /\ studentAppointment = EmptyStore
  /\ counsellorAppointment = EmptyStore
  /\ analyticsRisk = EmptyStore
  /\ assessment = EmptyStore
  /\ analyticsAssessment = EmptyStore
  /\ uuid = 0
  /\ req = [ a \in Admins |-> NoReq ]
  /\ responses = EmptyStore
  /\ \E series \in SeriesInputs :
       client = [ a \in Admins |-> LoadedClient([ riskAnalytics |-> series ]) ]
  /\ assessed = [ message |-> << >>, riskLevel |-> "none" ]

NextStats == \E a \in Admins : Render(a)

SpecStats == InitStats /\ [][NextStats]_vars

(***************************************************************************)
(* GET /analytics and loadAnalytics of the admin dashboard.                *)
(***************************************************************************)
MaxDays == 3

\* Who calls the endpoint: the admin and a student.
Viewers == Admins \cup { "s1" }

\* A role test that lets every signed-up user through.
IsAnyRole(profile) == profile.role \in { "admin", "counsellor", "student" }

\* profile.role !== 'admin', negated
IsAdmin(profile) == profile.role = "admin"

NoAnalyticsLoc ==
  [ user |-> "none", riskAnalytics |-> << >>, assessmentAnalytics |-> << >>,
    usersByRole |-> << >>, totalUsers |-> 0, response |-> << >> ]

NewAnalytics(token) ==
  [ kind |-> "analytics", pc |-> "auth", token |-> token, body |-> << >>,
    loc |-> NoAnalyticsLoc, status |-> 0 ]

IdleViewer == [ pc |-> "idle", analytics |-> << >>, stats |-> NoStats ]

\* return c.json(json, code)
RespondJson(r, code, json) ==
  [ req EXCEPT ![r].pc = "done", ![r].status = code, ![r].loc.response = json ]

\* loadAnalytics up to its fetch.
loadAnalytics(v, token) ==
  /\ client[v].pc = "idle"
  /\ req[v].kind = "none"
  /\ req' = [ req EXCEPT ![v] = NewAnalytics(token) ]
  /\ client' = [ client EXCEPT ![v].pc = "awaitAnalytics" ]
  /\ UNCHANGED << now, storeVars, uuid, responses, assessed >>

\* The fetch has resolved: setAnalytics(data) when response.ok, else the
\* error toast.
AnalyticsLoaded(v) ==
  /\ client[v].pc = "awaitAnalytics"
  /\ req[v].pc = "done"
  /\ client' = [ client EXCEPT ![v] =
                   IF req[v].status = 200
                   THEN LoadedClient(req[v].loc.response)
                   ELSE [ pc |-> "failed", analytics |-> << >>,
                          stats |-> NoStats ] ]
  /\ UNCHANGED << now, storeVars, uuid, req, responses, assessed >>

\* getUser and the 401 answer.
AnalyticsAuth(r) ==
  /\ req[r].kind = "analytics" /\ req[r].pc = "auth"
  /\ LET user == getUser(req[r].token) IN
     IF user = "none"
     THEN req' = RespondJson(r, 401, [ error |-> "Unauthorized" ])
     ELSE req' = [ req EXCEPT ![r].pc = "getProfile", ![r].loc.user = user ]
  /\ UNCHANGED << now, storeVars, uuid, responses, client, assessed >>

\* kv.get(`user:${user.id}`) and the 403 answer; profile.role of a missing
\* profile throws and the catch answers 500.
AnalyticsGetProfile(r) ==
  /\ req[r].kind = "analytics" /\ req[r].pc = "getProfile"
  /\ IF req[r].loc.user \notin DOMAIN users
     THEN req' = RespondJson(r, 500, [ error |-> "Failed to fetch analytics" ])
     ELSE IF ~IsAdmin(users[req[r].loc.user])
     THEN req' = RespondJson(r, 403, [ error |-> "Access denied - Admin only" ])
     ELSE req' = [ req EXCEPT ![r].pc = "getRisk" ]
  /\ UNCHANGED << now, storeVars, uuid, responses, client, assessed >>

\* kv.getByPrefix('analytics:risk:')
AnalyticsGetRisk(r) ==
  /\ req[r].kind = "analytics" /\ req[r].pc = "getRisk"
  /\ \E riskAnalytics \in getByPrefix(analyticsRisk) :
       req' = [ req EXCEPT ![r].pc = "getAssessment",
                           ![r].loc.riskAnalytics = riskAnalytics ]
  /\ UNCHANGED << now, storeVars, uuid, responses, client, assessed >>

\* kv.getByPrefix('analytics:assessment:')
AnalyticsGetAssessment(r) ==
  /\ req[r].kind = "analytics" /\ req[r].pc = "getAssessment"
  /\ \E assessmentAnalytics \in getByPrefix(analyticsAssessment) :
       req' = [ req EXCEPT ![r].pc = "getUsers",
                           ![r].loc.assessmentAnalytics = assessmentAnalytics ]
  /\ UNCHANGED << now, storeVars, uuid, responses, client, assessed >>

\* kv.getByPrefix('user:') and the count by role, which does not depend on
\* the order of the list.
AnalyticsGetUsers(r) ==
  /\ req[r].kind = "analytics" /\ req[r].pc = "getUsers"
  /\ req' = [ req EXCEPT
       ![r].pc = "getAppointments",
       ![r].loc.usersByRole =
          [ role \in { users[u].role : u \in DOMAIN users } |->
              Cardinality({ u \in DOMAIN users : users[u].role = role }) ],
       ![r].loc.totalUsers = Cardinality(DOMAIN users) ]
  /\ UNCHANGED << now, storeVars, uuid, responses, client, assessed >>

\* kv.getByPrefix('appointment:') and the answer.
AnalyticsGetAppointments(r) ==
  /\ req[r].kind = "analytics" /\ req[r].pc = "getAppointments"
  /\ req' = RespondJson(r, 200,
       [ riskAnalytics |-> req[r].loc.riskAnalytics,
         assessmentAnalytics |-> req[r].loc.assessmentAnalytics,
         usersByRole |-> req[r].loc.usersByRole,
         totalAppointments |-> Cardinality(DOMAIN appointment),
         totalUsers |-> req[r].loc.totalUsers ])
  /\ UNCHANGED << now, storeVars, uuid, responses, client, assessed >>

AnalyticsHandler(r) ==
  \/ AnalyticsAuth(r)
  \/ AnalyticsGetProfile(r)
  \/ AnalyticsGetRisk(r)
  \/ AnalyticsGetAssessment(r)
  \/ AnalyticsGetUsers(r)
  \/ AnalyticsGetAppointments(r)

\* The store after some days of chat: a counter for each of the first days.
DayCounters ==
  UNION { [ 0..(n - 1) -> CounterChoices ] : n \in 0..MaxDays }

InitAdmin ==
  /\ now = 0
  /\ users = [ u \in Students \cup Admins |->
                 [ id |-> u, role |-> IF u \in Admins THEN "admin" ELSE "student" ] ]
  /\ chat = EmptyStore
  /\ forum = EmptyStore
  /\ appointment = EmptyStore
  /\ studentAppointment = EmptyStore
  /\ counsellorAppointment = EmptyStore
  /\ analyticsRisk \in DayCounters
  /\ assessment = EmptyStore
  /\ analyticsAssessment = EmptyStore
  /\ uuid = 0
  /\ req = [ v \in Viewers |-> NoReq ]
  /\ responses = EmptyStore
  /\ client = [ v \in Viewers |-> IdleViewer ]
  /\ assessed = [ message |-> << >>, riskLevel |-> "none" ]

NextAdmin ==
  \/ \E v \in Viewers : \E token \in { v, "invalid" } : loadAnalytics(v, token)
  \/ \E v \in Viewers : AnalyticsLoaded(v)
  \/ \E v \in Viewers : Render(v)
  \/ \E r \in Viewers : AnalyticsHandler(r)

SpecAdmin == InitAdmin /\ [][NextAdmin]_vars

(***************************************************************************)
(* POST /chat called directly, POST /appointment, GET /appointments and    *)
(* the appointment list of the counsellor dashboard.                       *)
(***************************************************************************)
\* riskLevel of a request body: a tier, or any other string.
RawTiers == { "crisis", "low", "severe" }

\* A POST /chat of any client holding the student's token.
RawChat(u, riskLevel) ==
  /\ MayPost
  /\ req' = [ req EXCEPT ![u] =
                NewChat(u, [ message |-> TextHello, isUser |-> TRUE,
                             riskLevel |-> riskLevel ]) ]
  /\ UNCHANGED << now, storeVars, uuid, responses, client, assessed >>

\* The appointment object of an explicit booking.
BookedAppointment(id, userId, counsellorId, date, time, t) ==
  [ id |-> id, studentId |-> userId, counsellorId |-> counsellorId,
    date |-> date, time |-> time, status |-> "scheduled", created_at |-> t ]

NoBookingLoc == [ user |-> "none", appointment |-> << >>, response |-> << >> ]

NewBooking(token, body) ==
  [ kind |-> "appointment", pc |-> "auth", token |-> token, body |-> body,
    loc |-> NoBookingLoc, status |-> 0 ]

BookTimes == { "09:00", "10:00" }

\* bookAppointment of the student dashboard, up to its fetch.
bookAppointment(u, selectedCounsellor, appointmentDate, appointmentTime) ==
  /\ client[u].pc = "idle"
  /\ MayPost
  /\ req' = [ req EXCEPT ![u] =
                NewBooking(u, [ counsellorId |-> selectedCounsellor,
                                date |-> appointmentDate,
                                time |-> appointmentTime ]) ]
  /\ UNCHANGED << now, storeVars, uuid, responses, client, assessed >>

\* getUser, the 401 answer and the appointment object.
BookAuth(r) ==
  /\ req[r].kind = "appointment" /\ req[r].pc = "auth"
  /\ LET user == getUser(req[r].token) IN
     IF user = "none"
     THEN /\ req' = RespondJson(r, 401, [ error |-> "Unauthorized" ])
          /\ responses' = Record(Answer("appointment", "none", 401, -1))
          /\ uuid' = uuid
     ELSE /\ uuid' = uuid + 1
          /\ responses' = responses
          /\ req' = [ req EXCEPT
               ![r].pc = "setAppointment",
               ![r].loc.user = user,
               ![r].loc.appointment =
                  BookedAppointment(uuid + 1, user, req[r].body.counsellorId,
                                    req[r].body.date, req[r].body.time, now) ]
  /\ UNCHANGED << now, storeVars, client, assessed >>

BookSetAppointment(r) ==
  /\ req[r].kind = "appointment" /\ req[r].pc = "setAppointment"
  /\ appointment' =
       KvSet(appointment, req[r].loc.appointment.id, req[r].loc.appointment)
  /\ req' = [ req EXCEPT ![r].pc = "setStudentAppointment" ]
  /\ UNCHANGED << now, users, chat, studentAppointment, counsellorAppointment,
                  analyticsRisk, assessment, analyticsAssessment, uuid,
                  responses, client, assessed, forum >>

BookSetStudentAppointment(r) ==
  /\ req[r].kind = "appointment" /\ req[r].pc = "setStudentAppointment"
  /\ studentAppointment' =
       KvSet(studentAppointment,
             << req[r].loc.user, req[r].loc.appointment.id >>,
             req[r].loc.appointment)
  /\ req' = [ req EXCEPT ![r].pc = "setCounsellorAppointment" ]
  /\ UNCHANGED << now, users, chat, appointment, counsellorAppointment,
                  analyticsRisk, assessment, analyticsAssessment, uuid,
                  responses, client, assessed, forum >>

BookSetCounsellorAppointment(r) ==
  /\ req[r].kind = "appointment" /\ req[r].pc = "setCounsellorAppointment"
  /\ counsellorAppointment' =
       KvSet(counsellorAppointment,
             << req[r].body.counsellorId, req[r].loc.appointment.id >>,
             req[r].loc.appointment)
  /\ req' = RespondJson(r, 200, [ success |-> TRUE,
                                  appointment |-> req[r].loc.appointment ])
  /\ responses' = Record(Answer("appointment", "none", 200, Date(now)))
  /\ UNCHANGED << now, users, chat, appointment, studentAppointment,
                  analyticsRisk, assessment, analyticsAssessment, uuid,
                  client, assessed, forum >>

BookHandler(r) ==
  \/ BookAuth(r)
  \/ BookSetAppointment(r)
  \/ BookSetStudentAppointment(r)
  \/ BookSetCounsellorAppointment(r)

\* The part of a two-part-key store under a first key part.
WithPrefix(store, first) ==
  [ k \in { j \in DOMAIN store : j[1] = first } |-> store[k] ]

NoListLoc == [ user |-> "none", profile |-> << >>, response |-> << >> ]

NewListing(token) ==
  [ kind |-> "appointments", pc |-> "auth", token |-> token, body |-> << >>,
    loc |-> NoListLoc, status |-> 0 ]

IdleCounsellor == [ pc |-> "idle", appointments |-> << >> ]

\* new Date(a.date + 'T' + a.time).getTime(), in hours.
getTime(a) ==
  a.date * 24 + (IF a.time = "09:00" THEN 9 ELSE IF a.time = "10:00" THEN 10 ELSE 0)

\* Array.prototype.sort with the comparator of loadAppointments: ascending
\* by date and time, equal ones left in their order.
RECURSIVE sort(_)
sort(list) ==
  IF list = << >> THEN << >>
  ELSE LET last == list[Len(list)]
           rest == sort(SubSeq(list, 1, Len(list) - 1))
           before == SelectSeq(rest, LAMBDA a : getTime(a) <= getTime(last))
           after == SelectSeq(rest, LAMBDA a : getTime(a) > getTime(last))
       IN before \o << last >> \o after

\* loadAppointments of the counsellor dashboard, up to its fetch.
loadAppointments(c) ==
  /\ c \in DOMAIN users
  /\ client[c].pc = "idle"
  /\ req' = [ req EXCEPT ![c] = NewListing(c) ]
  /\ client' = [ client EXCEPT ![c].pc = "awaitAppointments" ]
  /\ UNCHANGED << now, storeVars, uuid, responses, assessed >>

\* The fetch has resolved: setAppointments(appointments.sort(...)).
AppointmentsLoaded(c) ==
  /\ client[c].pc = "awaitAppointments"
  /\ req[c].pc = "done"
  /\ client' = [ client EXCEPT ![c] =
                   [ pc |-> "ready",
                     appointments |->
                       IF req[c].status = 200
                       THEN sort(req[c].loc.response.appointments)
                       ELSE << >> ] ]
  /\ UNCHANGED << now, storeVars, uuid, req, responses, assessed >>

\* A status change that also moves the appointment to the next day.
WithStatusNextDay(apt, newStatus) ==
  [ apt EXCEPT !.status = newStatus, !.date = apt.date + 1 ]

\* { ...apt, status: newStatus }
WithStatus(apt, newStatus) == [ apt EXCEPT !.status = newStatus ]

\* updateAppointmentStatus: the list of the dashboard alone is changed.
updateAppointmentStatus(c, appointmentId, newStatus) ==
  /\ client[c].pc = "ready"
  /\ \E i \in DOMAIN client[c].appointments :
       /\ client[c].appointments[i].id = appointmentId
       /\ client[c].appointments[i].status # newStatus
  /\ client' = [ client EXCEPT ![c].appointments =
       [ i \in DOMAIN client[c].appointments |->
           IF client[c].appointments[i].id = appointmentId
           THEN WithStatus(client[c].appointments[i], newStatus)
           ELSE client[c].appointments[i] ] ]
  /\ UNCHANGED << now, storeVars, uuid, req, responses, assessed >>

\* getUser and the 401 answer.
ListAuth(r) ==
  /\ req[r].kind = "appointments" /\ req[r].pc = "auth"
  /\ LET user == getUser(req[r].token) IN
     IF user = "none"
     THEN req' = RespondJson(r, 401, [ error |-> "Unauthorized" ])
     ELSE req' = [ req EXCEPT ![r].pc = "getProfile", ![r].loc.user = user ]
  /\ UNCHANGED << now, storeVars, uuid, responses, client, assessed >>

\* kv.get(`user:${user.id}`)
ListGetProfile(r) ==
  /\ req[r].kind = "appointments" /\ req[r].pc = "getProfile"
  /\ IF req[r].loc.user \notin DOMAIN users
     THEN req' = RespondJson(r, 500, [ error |-> "Failed to fetch appointments" ])
     ELSE req' = [ req EXCEPT ![r].pc = "getList",
                              ![r].loc.profile = users[req[r].loc.user] ]
  /\ UNCHANGED << now, storeVars, uuid, responses, client, assessed >>

\* kv.getByPrefix of the student's or the counsellor's copies, and the
\* answer.
ListGetAppointments(r) ==
  /\ req[r].kind = "appointments" /\ req[r].pc = "getList"
  /\ \E appointments \in
         IF req[r].loc.profile.role = "student"
         THEN getByPrefix(WithPrefix(studentAppointment, req[r].loc.user))
         ELSE IF req[r].loc.profile.role = "counsellor"
         THEN getByPrefix(WithPrefix(counsellorAppointment, req[r].loc.user))
         ELSE { << >> } :
       req' = RespondJson(r, 200, [ appointments |-> appointments ])
  /\ UNCHANGED << now, storeVars, uuid, responses, client, assessed >>

ListHandler(r) ==
  \/ ListAuth(r)
  \/ ListGetProfile(r)
  \/ ListGetAppointments(r)

InitBook ==
  /\ now = 0
  /\ users = StudentProfiles
  /\ chat = EmptyStore
  /\ forum = EmptyStore
  /\ appointment = EmptyStore
  /\ studentAppointment = EmptyStore
  /\ counsellorAppointment = EmptyStore
  /\ analyticsRisk = EmptyStore
  /\ assessment = EmptyStore
  /\ analyticsAssessment = EmptyStore
  /\ uuid = 0
  /\ req = [ v \in Students \cup Counsellors |-> NoReq ]
  /\ responses = EmptyStore
  /\ client = [ v \in Students \cup Counsellors |->
                  IF v \in Students THEN IdleClient ELSE IdleCounsellor ]
  /\ assessed = [ message |-> << >>, riskLevel |-> "none" ]

\* The student and the counsellor of this part.
Bookers == Students

Listers == { "c1" }

\* Requests are posted one at a time.
Quiet == \A v \in Students \cup Counsellors : ~InFlight(v)

NextBook ==
  \/ \E c \in Listers : Signup(c)
  \/ \E u \in Bookers, riskLevel \in RawTiers : Quiet /\ RawChat(u, riskLevel)
  \/ \E u \in Bookers, time \in BookTimes :
       \E c \in { d \in Listers : d \in DOMAIN users } :
         Quiet /\ bookAppointment(u, c, Date(now) + 1, time)
  \/ \E c \in Listers : Quiet /\ loadAppointments(c)
  \/ \E c \in Listers : AppointmentsLoaded(c)
  \/ \E c \in Listers, id \in 1..(2 * MaxReq) :
       \E newStatus \in { "completed", "cancelled" } :
         updateAppointmentStatus(c, id, newStatus)
  \/ \E r \in Bookers : ChatHandler(r)
  \/ \E r \in Bookers : BookHandler(r)
  \/ \E r \in Listers : ListHandler(r)

SpecBook == InitBook /\ [][NextBook]_vars

\* The count of tier t in the risk counter of day d, 0 while it is absent.
RiskCount(d, t) ==
  IF d \in DOMAIN analyticsRisk /\ t \in DOMAIN analyticsRisk[d]
  THEN analyticsRisk[d][t] ELSE 0

\* C11: the risk counter of a day is mutated by increment only: under every
\* interleaving of chat requests no step lowers the count of a tier of a
\* day.
C11_CountNeverDecreases ==
  [][ \A d \in 0..Date(MaxNow), t \in Tiers : RiskCount(d, t)' >= RiskCount(d, t) ]_vars

\* The stored chat messages of day d that carry tier t.
StoredMessages(d, t) ==
  { k \in DOMAIN chat : Date(chat[k].timestamp) = d /\ chat[k].riskLevel = t }

\* C12: once the chat requests posted so far are answered, the count of
\* each tier in the risk counter of each day is the number of stored chat
\* messages of that day with that tier.
C12_CountEqualsStoredMessages ==
  NoneInFlight =>
    \A d \in 0..Date(MaxNow), t \in Tiers :
      RiskCount(d, t) = Cardinality(StoredMessages(d, t))

\* C13: a questionnaire submission scored high or crisis goes through the
\* escalation rule: when it is answered and a counsellor has signed up, an
\* auto-scheduled appointment is stored for the submitting student.
C13_AssessmentEscalates ==
  \A u \in Students :
    ( /\ req[u].kind = "assessment" /\ req[u].pc = "done" /\ req[u].status = 200
      /\ req[u].loc.assessment.riskLevel \in { "high", "crisis" }
      /\ \E c \in Counsellors : IsCounsellorId(c) )
      => \E id \in DOMAIN appointment :
           /\ appointment[id].studentId = u
           /\ appointment[id].status = "auto-scheduled"

\* The number a string of digits stands for, the point left out: "25.0" is
\* 250 tenths.
RECURSIVE Tenths(_)
Tenths(str) ==
  IF str = << >> THEN 0
  ELSE LET last == str[Len(str)]
           rest == SubSeq(str, 1, Len(str) - 1)
       IN IF last = "." THEN Tenths(rest)
          ELSE 10 * Tenths(rest)
                 + (CHOOSE d \in 0..9 : DigitChars[d + 1] = last)

\* The counters the dashboard has loaded, and the last WindowDays of them.
LoadedSeries(a) == client[a].analytics.riskAnalytics

Windowed(a) ==
  LET s == LoadedSeries(a) IN
  [ i \in 1..(IF Len(s) > WindowDays THEN WindowDays ELSE Len(s)) |->
      s[Len(s) - (IF Len(s) > WindowDays THEN WindowDays ELSE Len(s)) + i] ]

TierTotal(s, t) == SumOver([ i \in DOMAIN s |-> s[i][t] ], DOMAIN s)

GrandTotal(s) == SumOver([ t \in Tiers |-> TierTotal(s, t) ], Tiers)

NthDay(i) ==
  CHOOSE d \in DOMAIN analyticsRisk :
    Cardinality({ e \in DOMAIN analyticsRisk : e < d }) = i - 1

SeriesByDate ==
  [ i \in 1..Cardinality(DOMAIN analyticsRisk) |-> analyticsRisk[NthDay(i)] ]

\* The last WindowDays entries of a series.
MostRecent(s) ==
  SubSeq(s, IF Len(s) > WindowDays THEN Len(s) - WindowDays + 1 ELSE 1, Len(s))

\* C15: the risk series the admin view has loaded is in ascending order of
\* date, whatever order the prefix scan gave, so the entries the dashboard
\* aggregates are the counters of the most recent days.
C15_SeriesAscendingByDate ==
  \A a \in Viewers :
    client[a].pc \in { "loaded", "rendered" } =>
      /\ LoadedSeries(a) = SeriesByDate
      /\ LET riskData == processRiskData(client[a].analytics) IN
         /\ Len(riskData) = Len(MostRecent(SeriesByDate))
         /\ \A i \in DOMAIN riskData :
              /\ riskData[i].Low = MostRecent(SeriesByDate)[i].low
              /\ riskData[i].Moderate = MostRecent(SeriesByDate)[i].moderate
              /\ riskData[i].High = MostRecent(SeriesByDate)[i].high
              /\ riskData[i].Crisis = MostRecent(SeriesByDate)[i].crisis

AnalyticsData ==
  { "riskAnalytics", "assessmentAnalytics", "usersByRole", "totalAppointments",
    "totalUsers" }

\* C16: GET /analytics answers 401 to a request without a valid identity
\* and 403 to an authenticated user whose stored role is not admin; neither
\* answer carries analytics data, and the dashboard of such a caller holds
\* none.
C16_AnalyticsAdminOnly ==
  \A v \in Viewers :
    /\ (req[v].kind = "analytics" /\ req[v].pc = "done") =>
         LET user == getUser(req[v].token) IN
         /\ user = "none" => req[v].status = 401
         /\ (user \in DOMAIN users /\ users[user].role # "admin") =>
              req[v].status = 403
         /\ (user = "none" \/ users[user].role # "admin") =>
              DOMAIN req[v].loc.response \cap AnalyticsData = {}
         /\ req[v].status = 200 => users[user].role = "admin"
    /\ (v \in DOMAIN users /\ users[v].role # "admin") =>
         DOMAIN client[v].analytics \cap AnalyticsData = {}

\* The student has got 403 while the store holds counters and the admin has
\* loaded them.
C16_Witness ==
  /\ req["s1"].kind = "analytics" /\ req["s1"].pc = "done"
  /\ req["s1"].token = "s1"
  /\ req["s1"].status = 403
  /\ client["s1"].pc = "failed"
  /\ analyticsRisk # EmptyStore
  /\ client["a1"].pc = "loaded"
  /\ Len(client["a1"].analytics.riskAnalytics) > 0

\* C17: whatever bodies POST /chat and POST /assessment receive, the tier
\* recorded on a chat message is one of the four tiers or none, the tier
\* recorded on an assessment or an appointment is one of the four tiers, and
\* the keys of a day's risk counter are tiers.
C17_TiersOnly ==
  /\ \A k \in DOMAIN chat : chat[k].riskLevel \in Tiers \cup { "null" }
  /\ \A k \in DOMAIN assessment : assessment[k].riskLevel \in Tiers
  /\ \A id \in DOMAIN appointment :
       "riskLevel" \in DOMAIN appointment[id] =>
         appointment[id].riskLevel \in Tiers
  /\ \A d \in DOMAIN analyticsRisk : DOMAIN analyticsRisk[d] \subseteq Tiers

\* What of an appointment no operation may change.
Fixed(a) ==
  [ id |-> a.id, studentId |-> a.studentId,
    counsellorId |-> IF "counsellorId" \in DOMAIN a THEN a.counsellorId ELSE "none",
    date |-> a.date, time |-> a.time,
    riskLevel |-> IF "riskLevel" \in DOMAIN a THEN a.riskLevel ELSE "none" ]

\* Every entry of the store stays, with the same fixed part.
Kept(store) ==
  \A k \in DOMAIN store : k \in DOMAIN store' /\ Fixed(store'[k]) = Fixed(store[k])

\* C18: no step of the server or of the counsellor dashboard changes id,
\* student, counsellor, date, time or tier of an appointment, in the store
\* or in the list the dashboard shows; an appointment enters the store with
\* status scheduled or auto-scheduled.
C18_AppointmentFieldsFixed ==
  [][ /\ Kept(appointment)
      /\ Kept(studentAppointment)
      /\ Kept(counsellorAppointment)
      /\ \A id \in DOMAIN appointment' \ DOMAIN appointment :
           appointment'[id].status \in { "scheduled", "auto-scheduled" }
      /\ \A c \in Listers :
           /\ client'[c].pc = "ready" =>
                \A i \in DOMAIN client'[c].appointments :
                  LET a == client'[c].appointments[i] IN
                  a.id \in DOMAIN appointment' /\ Fixed(a) = Fixed(appointment'[a.id])
           /\ (client[c].pc = "ready" /\ client'[c].pc = "ready") =>
                /\ Len(client'[c].appointments) = Len(client[c].appointments)
                /\ \A i \in DOMAIN client[c].appointments :
                     Fixed(client'[c].appointments[i])
                       = Fixed(client[c].appointments[i]) ]_vars

\* The counsellor has marked an escalation appointment completed and
\* cancelled a booked one; the store still holds both as created.
C18_Witness ==
  \E c \in Listers :
    /\ client[c].pc = "ready"
    /\ \E i, j \in DOMAIN client[c].appointments :
         /\ client[c].appointments[i].status = "completed"
         /\ appointment[client[c].appointments[i].id].status = "auto-scheduled"
         /\ client[c].appointments[j].status = "cancelled"
         /\ appointment[client[c].appointments[j].id].status = "scheduled"

\* The auto-scheduled appointments stored for student u.
AutoScheduled(u) ==
  { id \in DOMAIN appointment :
      /\ appointment[id].studentId = u
      /\ appointment[id].status = "auto-scheduled" }

\* C19: the escalation does not de-duplicate: every high or crisis chat
\* request handled with a counsellor in the pool stores one more
\* auto-scheduled appointment for its student, under an id no appointment
\* has yet, whether or not the student already has one pending; none is
\* ever removed.
C19_NoDeduplication ==
  [][ \A u \in Students :
        /\ AutoScheduled(u) \subseteq AutoScheduled(u)'
        /\ ( /\ req[u].kind = "chat" /\ req[u].pc = "setAppointment"
             /\ req'[u].pc # "setAppointment" ) =>
             /\ req[u].loc.appointment.id \notin DOMAIN appointment
             /\ AutoScheduled(u)' = AutoScheduled(u) \cup { req[u].loc.appointment.id }
        /\ ( /\ req[u].kind = "chat" /\ Answers(u) /\ req'[u].status = 200
             /\ req[u].body.riskLevel \in { "high", "crisis" }
             /\ Len(req[u].loc.counsellorProfiles) > 0 ) =>
             req[u].loc.appointment.id \in AutoScheduled(u)' ]_vars

\* Two crisis messages of student s1 have left two auto-scheduled
\* appointments, both still pending.
C19_Witness ==
  /\ Cardinality(AutoScheduled("s1")) = 2
  /\ req["s1"].kind = "chat" /\ req["s1"].pc = "done"
  /\ req["s1"].loc.appointment.id \in AutoScheduled("s1")

\* The count of an instrument in the assessment counter of a date, 0 where
\* nothing is stored.
AssessmentCount(d, type) ==
  IF d \in DOMAIN analyticsAssessment /\ type \in DOMAIN analyticsAssessment[d]
  THEN analyticsAssessment[d][type]
  ELSE 0

\* C20: the step that answers an assessment submission with success raises
\* the count of its instrument in the counter of its date by exactly 1 and
\* leaves every other instrument's count and every other date's counter as
\* they were.
C20_AssessmentCountsOne ==
  [][ \A u \in Students :
        ( /\ req[u].kind = "assessment" /\ Answers(u)
          /\ req'[u].status = 200 ) =>
          \A d \in 0..Date(MaxNow), type \in { "PHQ-9", "GAD-7" } :
            AssessmentCount(d, type)' =
              AssessmentCount(d, type)
                + (IF d = req[u].loc.analyticsKey /\ type = req[u].body.type
                   THEN 1 ELSE 0) ]_vars

(***************************************************************************)
(* The forum: POST /forum, POST /forum/:postId/reply and GET /forum.       *)
(***************************************************************************)
MaxForum == 3

\* A behaviour of the forum holds at most MaxForum posts and replies.
MayPostForum ==
  Answered + Cardinality({ r \in Students : InFlight(r) }) < MaxForum

NoForumLoc ==
  [ user |-> "none", post |-> << >>, reply |-> << >>, response |-> << >> ]

NewForumPost(token, body) ==
  [ kind |-> "forum", pc |-> "auth", token |-> token, body |-> body,
    loc |-> NoForumLoc, status |-> 0 ]

NewReply(token, postId, body) ==
  [ kind |-> "reply", pc |-> "auth", token |-> token, postId |-> postId,
    body |-> body, loc |-> NoForumLoc, status |-> 0 ]

NewForumList ==
  [ kind |-> "forumList", pc |-> "getPosts", token |-> "none",
    body |-> << >>, loc |-> NoForumLoc, status |-> 0 ]

\* A client posts to the forum.
createForumPost(u, token) ==
  /\ ~InFlight(u)
  /\ MayPostForum
  /\ req' = [ req EXCEPT ![u] =
                NewForumPost(token, [ content |-> TextHello,
                                      category |-> "general" ]) ]
  /\ UNCHANGED << now, storeVars, uuid, responses, client, assessed >>

\* A client replies to the post of an id.
replyToPost(u, postId, token) ==
  /\ ~InFlight(u)
  /\ MayPostForum
  /\ req' = [ req EXCEPT ![u] =
                NewReply(token, postId, [ content |-> TextSad ]) ]
  /\ UNCHANGED << now, storeVars, uuid, responses, client, assessed >>

\* A client asks for the posts.
loadForumPosts(u) ==
  /\ ~InFlight(u)
  /\ req' = [ req EXCEPT ![u] = NewForumList ]
  /\ UNCHANGED << now, storeVars, uuid, responses, client, assessed >>

\* POST /forum: getUser, the 401 answer, the id of the post.
ForumAuth(r) ==
  /\ req[r].kind = "forum" /\ req[r].pc = "auth"
  /\ LET user == getUser(req[r].token) IN
     IF user = "none"
     THEN /\ req' = RespondJson(r, 401, [ error |-> "Unauthorized" ])
          /\ responses' = Record(Answer("forum", "none", 401, -1))
          /\ uuid' = uuid
     ELSE /\ uuid' = uuid + 1
          /\ responses' = responses
          /\ req' = [ req EXCEPT ![r].pc = "getName",
                                 ![r].loc.user = user,
                                 ![r].loc.post = [ id |-> uuid + 1 ] ]
  /\ UNCHANGED << now, storeVars, client, assessed >>

\* (await kv.get(`user:${user.id}`)).name and the post object; a modelled
\* profile is named by its id.
ForumGetName(r) ==
  /\ req[r].kind = "forum" /\ req[r].pc = "getName"
  /\ IF req[r].loc.user \notin DOMAIN users
     THEN /\ req' = RespondJson(r, 500, [ error |-> "Failed to create forum post" ])
          /\ responses' = Record(Answer("forum", "none", 500, -1))
     ELSE /\ req' = [ req EXCEPT
               ![r].pc = "setPost",
               ![r].loc.post =
                  [ id |-> req[r].loc.post.id,
                    userId |-> req[r].loc.user,
                    userName |-> users[req[r].loc.user].id,
                    content |-> req[r].body.content,
                    category |-> req[r].body.category,
                    timestamp |-> now,
                    replies |-> << >> ] ]
          /\ responses' = responses
  /\ UNCHANGED << now, storeVars, uuid, client, assessed >>

\* kv.set(`forum:${post.id}`, post) and the answer.
ForumSetPost(r) ==
  /\ req[r].kind = "forum" /\ req[r].pc = "setPost"
  /\ forum' = KvSet(forum, req[r].loc.post.id, req[r].loc.post)
  /\ req' = RespondJson(r, 200, [ success |-> TRUE, post |-> req[r].loc.post ])
  /\ responses' = Record(Answer("forum", req[r].loc.post.id, 200, Date(now)))
  /\ UNCHANGED << now, users, chat, appointment, studentAppointment,
                  counsellorAppointment, analyticsRisk, assessment,
                  analyticsAssessment, uuid, client, assessed >>

ForumPostHandler(r) ==
  \/ ForumAuth(r)
  \/ ForumGetName(r)
  \/ ForumSetPost(r)

\* POST /forum/:postId/reply: getUser and the 401 answer.
ReplyAuth(r) ==
  /\ req[r].kind = "reply" /\ req[r].pc = "auth"
  /\ LET user == getUser(req[r].token) IN
     IF user = "none"
     THEN /\ req' = RespondJson(r, 401, [ error |-> "Unauthorized" ])
          /\ responses' = Record(Answer("reply", "none", 401, -1))
     ELSE /\ req' = [ req EXCEPT ![r].pc = "getPost", ![r].loc.user = user ]
          /\ responses' = responses
  /\ UNCHANGED << now, storeVars, uuid, client, assessed >>

\* A handler that replies to a missing post as to an empty one.
ReplyGetPostUpsert(r) ==
  /\ req[r].kind = "reply" /\ req[r].pc = "getPost"
  /\ req' = [ req EXCEPT
       ![r].pc = "getName",
       ![r].loc.post = IF req[r].postId \in DOMAIN forum
                       THEN forum[req[r].postId]
                       ELSE [ id |-> req[r].postId, replies |-> << >> ],
       ![r].loc.reply = [ id |-> uuid + 1 ] ]
  /\ uuid' = uuid + 1
  /\ UNCHANGED << now, storeVars, responses, client, assessed >>

\* kv.get(`forum:${postId}`), the 404 answer, the id of the reply.
ReplyGetPost(r) ==
  /\ req[r].kind = "reply" /\ req[r].pc = "getPost"
  /\ IF req[r].postId \notin DOMAIN forum
     THEN /\ req' = RespondJson(r, 404, [ error |-> "Post not found" ])
          /\ responses' = Record(Answer("reply", "none", 404, -1))
          /\ uuid' = uuid
     ELSE /\ req' = [ req EXCEPT ![r].pc = "getName",
                                 ![r].loc.post = forum[req[r].postId],
                                 ![r].loc.reply = [ id |-> uuid + 1 ] ]
          /\ responses' = responses
          /\ uuid' = uuid + 1
  /\ UNCHANGED << now, storeVars, client, assessed >>

\* The reply object, with (await kv.get(`user:${user.id}`)).name, and
\* post.replies.push(reply).
ReplyGetName(r) ==
  /\ req[r].kind = "reply" /\ req[r].pc = "getName"
  /\ IF req[r].loc.user \notin DOMAIN users
     THEN /\ req' = RespondJson(r, 500, [ error |-> "Failed to reply to post" ])
          /\ responses' = Record(Answer("reply", "none", 500, -1))
     ELSE /\ LET reply == [ id |-> req[r].loc.reply.id,
                            userId |-> req[r].loc.user,
                            userName |-> users[req[r].loc.user].id,
                            content |-> req[r].body.content,
                            timestamp |-> now ]
             IN req' = [ req EXCEPT
                  ![r].pc = "setPost",
                  ![r].loc.reply = reply,
                  ![r].loc.post.replies = Append(req[r].loc.post.replies, reply) ]
          /\ responses' = responses
  /\ UNCHANGED << now, storeVars, uuid, client, assessed >>

\* kv.set(`forum:${postId}`, post) and the answer.
ReplySetPost(r) ==
  /\ req[r].kind = "reply" /\ req[r].pc = "setPost"
  /\ forum' = KvSet(forum, req[r].postId, req[r].loc.post)
  /\ req' = RespondJson(r, 200, [ success |-> TRUE, reply |-> req[r].loc.reply ])
  /\ responses' = Record(Answer("reply", req[r].loc.reply.id, 200, Date(now)))
  /\ UNCHANGED << now, users, chat, appointment, studentAppointment,
                  counsellorAppointment, analyticsRisk, assessment,
                  analyticsAssessment, uuid, client, assessed >>

ReplyHandler(r) ==
  \/ ReplyAuth(r)
  \/ ReplyGetPost(r)
  \/ ReplyGetName(r)
  \/ ReplySetPost(r)

\* posts.sort((a, b) => getTime(b.timestamp) - getTime(a.timestamp)):
\* descending by timestamp, equal ones left in their order.
RECURSIVE sortNewestFirst(_)
sortNewestFirst(posts) ==
  IF posts = << >> THEN << >>
  ELSE LET last == posts[Len(posts)]
           rest == sortNewestFirst(SubSeq(posts, 1, Len(posts) - 1))
           before == SelectSeq(rest, LAMBDA a : a.timestamp >= last.timestamp)
           after == SelectSeq(rest, LAMBDA a : a.timestamp < last.timestamp)
       IN before \o << last >> \o after

\* GET /forum: kv.getByPrefix('forum:'), sorted, answered to any caller.
ForumGetPosts(r) ==
  /\ req[r].kind = "forumList" /\ req[r].pc = "getPosts"
  /\ \E posts \in getByPrefix(forum) :
       req' = RespondJson(r, 200, [ posts |-> sortNewestFirst(posts) ])
  /\ UNCHANGED << now, storeVars, uuid, responses, client, assessed >>

\* The ids a reply may name: that of the first post and one more.
PostIds == { 1, 2 }

\* Posts are created and listed while no other request is being handled.
NoneHandled == \A v \in Students : ~InFlight(v)

NextForum ==
  \/ NoneHandled /\ Tick
  \/ \E u \in Students : NoneHandled /\ createForumPost(u, u)
  \/ \E u \in Students, postId \in PostIds : replyToPost(u, postId, u)
  \/ \E u \in Students : NoneHandled /\ loadForumPosts(u)
  \/ \E r \in Students : ForumPostHandler(r)
  \/ \E r \in Students : ReplyHandler(r)
  \/ \E r \in Students : ForumGetPosts(r)

SpecForum == Init /\ [][NextForum]_vars

(***************************************************************************)
(* GET /chat/:userId, and the reads of chat history and forum together.    *)
(***************************************************************************)
MaxRead == 4

NoHistoryLoc == [ user |-> "none", response |-> << >> ]

NewHistory(token, userId) ==
  [ kind |-> "history", pc |-> "auth", token |-> token, userId |-> userId,
    body |-> << >>, loc |-> NoHistoryLoc, status |-> 0 ]

\* loadChatHistory of the student dashboard, to its fetch; the endpoint
\* takes the user id from the path.
loadChatHistory(u, userId) ==
  /\ ~InFlight(u)
  /\ req' = [ req EXCEPT ![u] = NewHistory(u, userId) ]
  /\ UNCHANGED << now, storeVars, uuid, responses, client, assessed >>

\* getUser and the 401 answer.
HistoryAuth(r) ==
  /\ req[r].kind = "history" /\ req[r].pc = "auth"
  /\ LET user == getUser(req[r].token) IN
     IF user = "none"
     THEN req' = RespondJson(r, 401, [ error |-> "Unauthorized" ])
     ELSE req' = [ req EXCEPT ![r].pc = "getMessages", ![r].loc.user = user ]
  /\ UNCHANGED << now, storeVars, uuid, responses, client, assessed >>

\* The messages as the store yields them.
unsorted(chatMessages) == chatMessages

\* chatMessages.sort((a, b) => getTime(a.timestamp) - getTime(b.timestamp)):
\* ascending by timestamp, equal ones left in their order.
RECURSIVE sortOldestFirst(_)
sortOldestFirst(chatMessages) ==
  IF chatMessages = << >> THEN << >>
  ELSE LET last == chatMessages[Len(chatMessages)]
           rest == sortOldestFirst(SubSeq(chatMessages, 1, Len(chatMessages) - 1))
           before == SelectSeq(rest, LAMBDA a : a.timestamp <= last.timestamp)
           after == SelectSeq(rest, LAMBDA a : a.timestamp > last.timestamp)
       IN before \o << last >> \o after

\* kv.getByPrefix(`chat:${userId}:`), sorted, and the answer.
HistoryGetMessages(r) ==
  /\ req[r].kind = "history" /\ req[r].pc = "getMessages"
  /\ \E chatMessages \in getByPrefix(WithPrefix(chat, req[r].userId)) :
       req' = RespondJson(r, 200, [ messages |-> sortOldestFirst(chatMessages) ])
  /\ UNCHANGED << now, storeVars, uuid, responses, client, assessed >>

HistoryHandler(r) ==
  \/ HistoryAuth(r)
  \/ HistoryGetMessages(r)

\* A behaviour of the reads holds at most MaxRead posts.
MayPostRead == NoneHandled /\ Answered < MaxRead

\* A chat message is posted with the student's token.
postChat(u, riskLevel) ==
  /\ MayPostRead
  /\ req' = [ req EXCEPT ![u] =
                NewChat(u, [ message |-> TextHello, isUser |-> TRUE,
                             riskLevel |-> riskLevel ]) ]
  /\ UNCHANGED << now, storeVars, uuid, responses, client, assessed >>

\* A forum post is posted with the student's token.
postForum(u) ==
  /\ MayPostRead
  /\ req' = [ req EXCEPT ![u] =
                NewForumPost(u, [ content |-> TextHello,
                                  category |-> "general" ]) ]
  /\ UNCHANGED << now, storeVars, uuid, responses, client, assessed >>

\* The steps of POST /chat that a message of tier low goes through.
ChatLowHandler(r) ==
  \/ ChatAuth(r)
  \/ ChatSetMessage(r)
  \/ ChatGetAnalytics(r)
  \/ ChatSetAnalytics(r)

\* The student who chats and reads the history, and the one of the forum.
Chatters == { "s1" }

Posters == { "s2" }

NextRead ==
  \/ NoneHandled /\ Tick
  \/ \E u \in Chatters : postChat(u, "low")
  \/ \E u \in Posters : postForum(u)
  \/ \E u \in Chatters, userId \in Students :
       NoneHandled /\ loadChatHistory(u, userId)
  \/ \E u \in Posters : NoneHandled /\ loadForumPosts(u)
  \/ \E r \in Chatters : ChatLowHandler(r)
  \/ \E r \in Posters : ForumPostHandler(r)
  \/ \E r \in Chatters : HistoryHandler(r)
  \/ \E r \in Posters : ForumGetPosts(r)

SpecRead == Init /\ [][NextRead]_vars

(***************************************************************************)
(* The five endpoints that change the store, called with and without a     *)
(* valid token.                                                            *)
(***************************************************************************)
\* A token of the caller, a token the identity provider does not know, and
\* no Authorization header.
Tokens(u) == { u, "invalid", "none" }

\* One request to each endpoint.
Requests(token) ==
  { NewChat(token, [ message |-> TextHello, isUser |-> TRUE,
                     riskLevel |-> "crisis" ]),
    NewBooking(token, [ counsellorId |-> "c1", date |-> Date(now) + 1,
                        time |-> "09:00" ]),
    NewForumPost(token, [ content |-> TextHello, category |-> "general" ]),
    NewReply(token, 1, [ content |-> TextSad ]),
    NewAssessment(token, [ type |-> "GAD-7", scores |-> Items(7, 7, 3, 3),
                           responses |-> Items(7, 7, 3, 3) ]) }

\* A request arrives while no other is being handled.
Post(u, request) ==
  /\ NoneHandled
  /\ MayPost
  /\ req' = [ req EXCEPT ![u] = request ]
  /\ UNCHANGED << now, storeVars, uuid, responses, client, assessed >>

NextAuth ==
  \/ \E c \in Listers : Signup(c)
  \/ \E u \in Students : \E token \in Tokens(u) :
       \E request \in Requests(token) : Post(u, request)
  \/ \E r \in Students : ChatHandler(r)
  \/ \E r \in Students : BookHandler(r)
  \/ \E r \in Students : ForumPostHandler(r)
  \/ \E r \in Students : ReplyHandler(r)
  \/ \E r \in Students : AssessmentHandler(r)

SpecAuth == Init /\ [][NextAuth]_vars

(***************************************************************************)
(* Appointments when a write to the store fails.                           *)
(***************************************************************************)
\* A kv.set of POST /appointment throws: the catch answers 500 and the
\* writes made before it stay.
BookSetFails(r) ==
  /\ req[r].kind = "appointment"
  /\ req[r].pc \in { "setAppointment", "setStudentAppointment",
                     "setCounsellorAppointment" }
  /\ req' = RespondJson(r, 500, [ error |-> "Failed to book appointment" ])
  /\ responses' = Record(Answer("appointment", "none", 500, -1))
  /\ UNCHANGED << now, storeVars, uuid, client, assessed >>

\* A kv.set of the escalation in POST /chat throws: the catch answers 500
\* and the writes made before it stay.
ChatSetFails(r) ==
  /\ req[r].kind = "chat"
  /\ req[r].pc \in { "setAppointment", "setStudentAppointment",
                     "setCounsellorAppointment" }
  /\ req' = Respond(r, 500)
  /\ responses' = Record(Answer("chat", req[r].body.riskLevel, 500, -1))
  /\ UNCHANGED << now, storeVars, uuid, client, assessed >>

\* The users who read appointments.
Readers == Students \cup Listers \cup Admins

\* A GET /appointments of any client holding the user's token.
listAppointments(v) ==
  /\ v \in DOMAIN users
  /\ req' = [ req EXCEPT ![v] = NewListing(v) ]
  /\ UNCHANGED << now, storeVars, uuid, responses, client, assessed >>

InitPartial ==
  /\ now = 0
  /\ users = [ u \in Students \cup Admins |->
                 [ id |-> u, role |-> IF u \in Admins THEN "admin" ELSE "student" ] ]
  /\ chat = EmptyStore
  /\ forum = EmptyStore
  /\ appointment = EmptyStore
  /\ studentAppointment = EmptyStore
  /\ counsellorAppointment = EmptyStore
  /\ analyticsRisk = EmptyStore
  /\ assessment = EmptyStore
  /\ analyticsAssessment = EmptyStore
  /\ uuid = 0
  /\ req = [ v \in Students \cup Counsellors \cup Admins |-> NoReq ]
  /\ responses = EmptyStore
  /\ client = [ v \in Students \cup Counsellors \cup Admins |->
                  IF v \in Students THEN IdleClient ELSE IdleCounsellor ]
  /\ assessed = [ message |-> << >>, riskLevel |-> "none" ]

\* No request is being handled.
AtRest == \A v \in Students \cup Counsellors \cup Admins : ~InFlight(v)

NextPartial ==
  \/ \E c \in Listers : Signup(c)
  \/ \E u \in Bookers : AtRest /\ RawChat(u, "crisis")
  \/ \E u \in Bookers, time \in BookTimes :
       \E c \in { d \in Listers : d \in DOMAIN users } :
         AtRest /\ bookAppointment(u, c, Date(now) + 1, time)
  \/ \E v \in Readers : AtRest /\ listAppointments(v)
  \/ \E r \in Bookers : ChatHandler(r)
  \/ \E r \in Bookers : BookHandler(r)
  \/ \E r \in Readers : ListHandler(r)
  \/ \E r \in Bookers : BookSetFails(r)
  \/ \E r \in Bookers : ChatSetFails(r)

SpecPartial == InitPartial /\ [][NextPartial]_vars

(***************************************************************************)
(* Two sessions of one student post chat messages.                         *)
(***************************************************************************)
\* The student of both sessions; each slot of req is one session.
SessionUser == "s1"

\* A session posts a chat message. A request sent after every earlier one
\* was answered reaches the server at a later millisecond; one sent while
\* another is being handled may reach it within the same millisecond.
postSession(r, riskLevel) ==
  /\ ~InFlight(r)
  /\ MayPost
  /\ IF NoneInFlight THEN now < MaxNow /\ now' = now + 1 ELSE now' = now
  /\ req' = [ req EXCEPT ![r] =
                NewChat(SessionUser, [ message |-> TextHello, isUser |-> TRUE,
                                       riskLevel |-> riskLevel ]) ]
  /\ UNCHANGED << storeVars, uuid, responses, client, assessed >>

NextSessions ==
  \/ Tick
  \/ \E c \in Listers : Signup(c)
  \/ \E r \in Students, riskLevel \in { "low", "crisis" } :
       postSession(r, riskLevel)
  \/ \E r \in Students : ChatHandler(r)

SpecSessions == Init /\ [][NextSessions]_vars

(***************************************************************************)
(* The assessment tab of the student dashboard.                            *)
(***************************************************************************)
\* The value of a hole of a JavaScript array; JSON.stringify sends null.
undefined == -1

\* PHQ9_QUESTIONS.length and GAD7_QUESTIONS.length
QuestionCount(assessmentType) == IF assessmentType = "PHQ-9" THEN 9 ELSE 7

\* The values of the items offered that the model selects.
ItemValues == { 0, 3 }

IdleForm ==
  [ pc |-> "idle", assessmentType |-> "PHQ-9", assessmentScores |-> << >> ]

\* onValueChange of the instrument select.
setAssessmentType(u, assessmentType) ==
  /\ client[u].pc = "idle"
  /\ client' = [ client EXCEPT ![u].assessmentType = assessmentType ]
  /\ UNCHANGED << now, storeVars, uuid, req, responses, assessed >>

\* newScores = [...assessmentScores]; newScores[index] = value: writing
\* beyond the end of the array leaves holes before the index.
WithScore(assessmentScores, index, value) ==
  [ i \in 1..(IF index > Len(assessmentScores)
              THEN index ELSE Len(assessmentScores)) |->
      IF i = index THEN value
      ELSE IF i <= Len(assessmentScores) THEN assessmentScores[i]
      ELSE undefined ]

\* onValueChange of the select of a question of the instrument shown.
setAssessmentScores(u, index, value) ==
  /\ client[u].pc = "idle"
  /\ index <= QuestionCount(client[u].assessmentType)
  /\ client' = [ client EXCEPT ![u].assessmentScores =
                   WithScore(client[u].assessmentScores, index, value) ]
  /\ UNCHANGED << now, storeVars, uuid, req, responses, assessed >>

\* disabled={assessmentScores.length < (assessmentType === 'PHQ-9' ? 9 : 7)}
SubmitEnabled(u) ==
  ~(Len(client[u].assessmentScores) < QuestionCount(client[u].assessmentType))

\* A click on the button while it is enabled.
clickSubmit(u) ==
  /\ SubmitEnabled(u)
  /\ submitAssessment(u, client[u].assessmentType,
                      client[u].assessmentScores, u)

InitForm ==
  /\ now = 0
  /\ users = StudentProfiles
  /\ chat = EmptyStore
  /\ forum = EmptyStore
  /\ appointment = EmptyStore
  /\ studentAppointment = EmptyStore
  /\ counsellorAppointment = EmptyStore
  /\ analyticsRisk = EmptyStore
  /\ assessment = EmptyStore
  /\ analyticsAssessment = EmptyStore
  /\ uuid = 0
  /\ req = [ u \in Students |-> NoReq ]
  /\ responses = EmptyStore
  /\ client = [ u \in Students |-> IdleForm ]
  /\ assessed = [ message |-> << >>, riskLevel |-> "none" ]

\* The student at the form.
Respondents == { "s1" }

NextForm ==
  \/ \E u \in Respondents, assessmentType \in { "PHQ-9", "GAD-7" } :
       setAssessmentType(u, assessmentType)
  \/ \E u \in Respondents, index \in 1..9, value \in ItemValues :
       setAssessmentScores(u, index, value)
  \/ \E u \in Respondents : clickSubmit(u)

SpecForm == InitForm /\ [][NextForm]_vars

(***************************************************************************)
(* The session of App: checkAuth, handleSignUp, handleSignIn and           *)
(* handleSignOut, each an asynchronous function that may be awaiting while *)
(* another starts.                                                         *)
(***************************************************************************)
MaxFlows == 2

\* The account of the browser.
AppUser == "s1"

\* An asynchronous function at one of its awaits.
Flow(op, pc, token) == [ op |-> op, pc |-> pc, token |-> token ]

\* useState of user, loading, accessToken and isLogin, and the checkAuth of
\* useEffect.
MountedApp ==
  [ user |-> "none", loading |-> TRUE, accessToken |-> "none",
    isLogin |-> TRUE, toast |-> "none",
    flows |-> << Flow("checkAuth", "getSession", "none") >> ]

app == client["app"]

Without(flows, i) ==
  SubSeq(flows, 1, i - 1) \o SubSeq(flows, i + 1, Len(flows))

\* The screen shown: the spinner, the sign-in form or the dashboard.
Screen ==
  IF app.loading THEN "loading"
  ELSE IF app.user = "none" THEN "form" ELSE "dashboard"

\* What a step of App leaves alone.
AppFrame == UNCHANGED << now, storeVars, uuid, req, responses, assessed >>

\* supabase.auth.getSession() has resolved or thrown.
checkAuth(i) ==
  /\ app.flows[i].op = "checkAuth" /\ app.flows[i].pc = "getSession"
  /\ \E session \in { AppUser, "none", "throws" } :
       IF session \notin { "none", "throws" }
       THEN client' = [ client EXCEPT
              !["app"].accessToken = session,
              !["app"].flows[i] = Flow("checkAuth", "fetchUserProfile", session) ]
       ELSE client' = [ client EXCEPT
              !["app"].loading = FALSE,
              !["app"].flows = Without(app.flows, i) ]
  /\ AppFrame

\* The answers of GET /profile: the profile, an answer without one, an
\* error status, a failed fetch.
ProfileOutcomes == { "profile", "undefined", "notOk", "throws" }

\* fetchUserProfile after its fetch, and the rest of its caller.
fetchUserProfile(i) ==
  /\ app.flows[i].pc = "fetchUserProfile"
  /\ \E outcome \in ProfileOutcomes :
       client' = [ client EXCEPT
         !["app"].user = IF outcome = "profile" THEN app.flows[i].token
                         ELSE IF outcome = "undefined" THEN "none"
                         ELSE app.user,
         !["app"].loading = FALSE,
         !["app"].toast = IF app.flows[i].op = "handleSignIn"
                          THEN "Signed in successfully!" ELSE app.toast,
         !["app"].flows = Without(app.flows, i) ]
  /\ AppFrame

\* The tabs of the form.
setIsLogin(isLogin) ==
  /\ Screen = "form"
  /\ app.isLogin # isLogin
  /\ client' = [ client EXCEPT !["app"].isLogin = isLogin ]
  /\ AppFrame

\* A click on Create Account: setLoading(true) and the fetch.
handleSignUp ==
  /\ Screen = "form" /\ ~app.isLogin
  /\ Len(app.flows) < MaxFlows
  /\ client' = [ client EXCEPT
       !["app"].loading = TRUE,
       !["app"].flows = Append(app.flows, Flow("handleSignUp", "fetch", "none")) ]
  /\ AppFrame

\* The fetch of handleSignUp has resolved or thrown.
SignUpResolved(i) ==
  /\ app.flows[i].op = "handleSignUp" /\ app.flows[i].pc = "fetch"
  /\ \E outcome \in { "ok", "notOk", "throws" } :
       client' = [ client EXCEPT
         !["app"].isLogin = IF outcome = "ok" THEN TRUE ELSE app.isLogin,
         !["app"].toast = IF outcome = "ok"
                          THEN "Account created successfully! Please sign in."
                          ELSE "Failed to create account",
         !["app"].loading = FALSE,
         !["app"].flows = Without(app.flows, i) ]
  /\ AppFrame

\* A click on Sign In: setLoading(true) and signInWithPassword.
handleSignIn ==
  /\ Screen = "form" /\ app.isLogin
  /\ Len(app.flows) < MaxFlows
  /\ client' = [ client EXCEPT
       !["app"].loading = TRUE,
       !["app"].flows =
          Append(app.flows, Flow("handleSignIn", "signInWithPassword", "none")) ]
  /\ AppFrame

\* signInWithPassword has resolved or thrown.
SignInResolved(i) ==
  /\ app.flows[i].op = "handleSignIn" /\ app.flows[i].pc = "signInWithPassword"
  /\ \E session \in { AppUser, "none", "throws" } :
       IF session \notin { "none", "throws" }
       THEN client' = [ client EXCEPT
              !["app"].accessToken = session,
              !["app"].flows[i] = Flow("handleSignIn", "fetchUserProfile", session) ]
       ELSE client' = [ client EXCEPT
              !["app"].toast = "Failed to sign in",
              !["app"].loading = FALSE,
              !["app"].flows = Without(app.flows, i) ]
  /\ AppFrame

\* A click on Sign Out; the button stays while signOut is awaited.
handleSignOut ==
  /\ Screen = "dashboard"
  /\ Len(app.flows) < MaxFlows
  /\ client' = [ client EXCEPT
       !["app"].flows = Append(app.flows, Flow("handleSignOut", "signOut", "none")) ]
  /\ AppFrame

\* supabase.auth.signOut() has resolved or thrown.
SignOutResolved(i) ==
  /\ app.flows[i].op = "handleSignOut" /\ app.flows[i].pc = "signOut"
  /\ \E outcome \in { "ok", "throws" } :
       IF outcome = "ok"
       THEN client' = [ client EXCEPT
              !["app"].user = "none",
              !["app"].accessToken = "none",
              !["app"].toast = "Signed out successfully",
              !["app"].flows = Without(app.flows, i) ]
       ELSE client' = [ client EXCEPT
              !["app"].toast = "Failed to sign out",
              !["app"].flows = Without(app.flows, i) ]
  /\ AppFrame

InitApp ==
  /\ now = 0
  /\ users = StudentProfiles
  /\ chat = EmptyStore
  /\ forum = EmptyStore
  /\ appointment = EmptyStore
  /\ studentAppointment = EmptyStore
  /\ counsellorAppointment = EmptyStore
  /\ analyticsRisk = EmptyStore
  /\ assessment = EmptyStore
  /\ analyticsAssessment = EmptyStore
  /\ uuid = 0
  /\ req = [ u \in Students |-> NoReq ]
  /\ responses = EmptyStore
  /\ client = [ a \in { "app" } |-> MountedApp ]
  /\ assessed = [ message |-> << >>, riskLevel |-> "none" ]

NextApp ==
  \/ \E i \in 1..MaxFlows : i <= Len(app.flows) /\ checkAuth(i)
  \/ \E i \in 1..MaxFlows : i <= Len(app.flows) /\ fetchUserProfile(i)
  \/ \E isLogin \in BOOLEAN : setIsLogin(isLogin)
  \/ handleSignUp
  \/ \E i \in 1..MaxFlows : i <= Len(app.flows) /\ SignUpResolved(i)
  \/ handleSignIn
  \/ \E i \in 1..MaxFlows : i <= Len(app.flows) /\ SignInResolved(i)
  \/ handleSignOut
  \/ \E i \in 1..MaxFlows : i <= Len(app.flows) /\ SignOutResolved(i)

SpecApp == InitApp /\ [][NextApp]_vars

(***************************************************************************)
(* Properties of the forum.                                                *)
(***************************************************************************)
\* The handler of slot r acts in this step.
Acts(r) == req'[r] # req[r] /\ req[r].pc # "done" /\ req[r].kind # "none"

\* C21: when the handler of a reply by a signed-in user looks for a post id
\* that the store does not hold, it answers 404 with an error body; neither
\* this step nor any earlier step of the request writes to the store.
C21_ReplyToMissingPost ==
  [][ \A r \in Students :
        (req[r].kind = "reply" /\ Acts(r)) =>
          /\ req[r].pc \in { "auth", "getPost" } => UNCHANGED storeVars
          /\ (req[r].pc = "getPost" /\ req[r].postId \notin DOMAIN forum) =>
               /\ req'[r].pc = "done"
               /\ req'[r].status = 404
               /\ DOMAIN req'[r].loc.response = { "error" }
               /\ req'[r].loc.post = << >> ]_vars

\* A reply to a missing post was answered 404 while the forum holds a post.
C21_Witness ==
  \E r \in Students :
    /\ req[r].kind = "reply" /\ req[r].pc = "done" /\ req[r].status = 404
    /\ req[r].postId \notin DOMAIN forum
    /\ forum # EmptyStore

\* The ids of the replies the stored posts hold, as a bag.
StoredReplies(id) ==
  Cardinality({ << p, i >> \in (DOMAIN forum) \X (1..MaxForum) :
                  i \in DOMAIN forum[p].replies /\ forum[p].replies[i].id = id })

\* C26: every reply that was answered with success is in the replies list
\* of a stored post exactly once, however the requests overlap.
C26_NoReplyLost ==
  \A a \in DOMAIN responses :
    (a.kind = "reply" /\ a.status = 200) => StoredReplies(a.subject) = 1

\* The timestamps of a list never decrease.
Ascending(list) ==
  \A i, j \in DOMAIN list : i < j => list[i].timestamp <= list[j].timestamp

\* The timestamps of a list never increase.
Descending(list) ==
  \A i, j \in DOMAIN list : i < j => list[i].timestamp >= list[j].timestamp

\* The list holds every value of the store once and nothing else.
Lists(list, store) ==
  /\ Len(list) = Cardinality(DOMAIN store)
  /\ { list[i] : i \in DOMAIN list } = { store[k] : k \in DOMAIN store }

\* C30: the answer of GET /chat/:userId lists the messages stored under
\* that user id, and only those, ascending by timestamp; the answer of
\* GET /forum lists the posts descending by timestamp; both whatever order
\* the prefix scan yields.
C30_ReadsSorted ==
  [][ \A r \in Students :
        /\ (req[r].kind = "history" /\ Answers(r) /\ req'[r].status = 200) =>
             /\ Ascending(req'[r].loc.response.messages)
             /\ Lists(req'[r].loc.response.messages,
                      WithPrefix(chat, req[r].userId))
             /\ \A i \in DOMAIN req'[r].loc.response.messages :
                  req'[r].loc.response.messages[i].userId = req[r].userId
        /\ (req[r].kind = "forumList" /\ Answers(r)) =>
             /\ req'[r].status = 200
             /\ Descending(req'[r].loc.response.posts)
             /\ Lists(req'[r].loc.response.posts, forum) ]_vars

\* One student holds a chat history of two messages of different times,
\* the other a forum listing of two posts of different times.
C30_Witness ==
  \E r, q \in Students :
    /\ req[r].kind = "history" /\ req[r].pc = "done" /\ req[r].status = 200
    /\ Len(req[r].loc.response.messages) = 2
    /\ req[r].loc.response.messages[1].timestamp
         < req[r].loc.response.messages[2].timestamp
    /\ req[q].kind = "forumList" /\ req[q].pc = "done"
    /\ Len(req[q].loc.response.posts) = 2
    /\ req[q].loc.response.posts[1].timestamp
         > req[q].loc.response.posts[2].timestamp

\* C22: a request to POST /chat, /appointment, /forum, /forum/:postId/reply
\* or /assessment that carries no token or an unknown one is answered 401
\* by the first step of its handler, and that step writes nothing: no key
\* of the store changes and no id is drawn.
C22_UnauthorizedWritesNothing ==
  [][ \A r \in Students :
        ( /\ req[r].kind \in { "chat", "appointment", "forum", "reply",
                               "assessment" }
          /\ req[r].token \in { "invalid", "none" }
          /\ Acts(r) ) =>
          /\ req[r].pc = "auth"
          /\ req'[r].pc = "done"
          /\ req'[r].status = 401
          /\ UNCHANGED << storeVars, uuid >> ]_vars

\* After an escalated chat message of a signed-in student was stored, a
\* request without a valid token has been answered 401.
C22_Witness ==
  \E r \in Students :
    /\ req[r].token \in { "invalid", "none" }
    /\ req[r].pc = "done" /\ req[r].status = 401
    /\ chat # EmptyStore /\ appointment # EmptyStore

\* The appointments a user is to be given: those of which a student is the
\* subject, those assigned to a counsellor, none for any other role.
OwnAppointments(v) ==
  IF users[v].role = "student"
  THEN { appointment[id] : id \in { i \in DOMAIN appointment :
                                      appointment[i].studentId = v } }
  ELSE IF users[v].role = "counsellor"
  THEN { appointment[id] : id \in { i \in DOMAIN appointment :
                                      appointment[i].counsellorId = v } }
  ELSE {}

\* C23: the answer of GET /appointments to a user, given while no other
\* request is being handled, lists exactly the stored appointments of which
\* the user is the subject (a student) or the assigned counsellor (a
\* counsellor), and none to an admin.
C23_OwnAppointmentsExactly ==
  [][ \A v \in Readers :
        (req[v].kind = "appointments" /\ Answers(v) /\ req'[v].status = 200) =>
          { req'[v].loc.response.appointments[i] :
              i \in DOMAIN req'[v].loc.response.appointments }
            = OwnAppointments(v) ]_vars

\* C24: while no request is being handled, an appointment is stored under
\* appointment:<id> if and only if the same record is stored under
\* student-appointment:<student>:<id> and under
\* counsellor-appointment:<counsellor>:<id>.
C24_ThreeCopiesAgree ==
  AtRest =>
    /\ \A id \in DOMAIN appointment :
         LET a == appointment[id] IN
         /\ << a.studentId, id >> \in DOMAIN studentAppointment
         /\ studentAppointment[<< a.studentId, id >>] = a
         /\ << a.counsellorId, id >> \in DOMAIN counsellorAppointment
         /\ counsellorAppointment[<< a.counsellorId, id >>] = a
    /\ \A k \in DOMAIN studentAppointment :
         k[2] \in DOMAIN appointment /\ appointment[k[2]] = studentAppointment[k]
    /\ \A k \in DOMAIN counsellorAppointment :
         k[2] \in DOMAIN appointment /\ appointment[k[2]] = counsellorAppointment[k]

\* C27: whenever the student dashboard shows the crisis notification, the
\* store holds an auto-scheduled appointment of tier crisis for that
\* student.
C27_NotificationMeansAppointment ==
  \A u \in Students :
    client[u].toast = "error" =>
      \E id \in DOMAIN appointment :
        /\ appointment[id].studentId = u
        /\ appointment[id].status = "auto-scheduled"
        /\ appointment[id].riskLevel = "crisis"

\* C25: the message of every chat request that was answered with success
\* is in the store under the key the handler gave it.
C25_AnsweredMessageStored ==
  \A r \in Students :
    (req[r].kind = "chat" /\ req[r].pc = "done" /\ req[r].status = 200) =>
      /\ req[r].loc.chatKey \in DOMAIN chat
      /\ chat[req[r].loc.chatKey] = req[r].loc.chatMessage

\* C28: the scores the student dashboard sends with type PHQ-9 have exactly
\* 9 entries and with type GAD-7 exactly 7, each an integer of 0..3.
C28_SubmittedScoresComplete ==
  \A u \in Students :
    req[u].kind = "assessment" =>
      /\ Len(req[u].body.scores) = QuestionCount(req[u].body.type)
      /\ \A i \in DOMAIN req[u].body.scores : req[u].body.scores[i] \in 0..3

\* An asynchronous function of the given names returns in this step.
Completes(ops) ==
  \E i \in DOMAIN app.flows :
    /\ app.flows[i].op \in ops
    /\ app'.flows = Without(app.flows, i)

\* C29: in App, after every step a user profile is set only with an access
\* token; the step in which a sign-out succeeds leaves neither; the step in
\* which checkAuth, handleSignIn or handleSignUp returns leaves loading
\* false.
C29_SessionState ==
  [][ /\ app'.user # "none" => app'.accessToken # "none"
      /\ ( /\ Completes({ "handleSignOut" })
           /\ app'.toast = "Signed out successfully" ) =>
           (app'.user = "none" /\ app'.accessToken = "none")
      /\ Completes({ "checkAuth", "handleSignIn", "handleSignUp" }) =>
           ~app'.loading ]_vars

====
